---- MODULE Spec2Model ----
(***************************************************************************)
(* Robot Data Management (rdm): the DataManager facade, its loader and     *)
(* converter registry, the seven format codecs and batch conversion,       *)
(* modelled from src/rdm/core/__init__.py and src/rdm/formats/*.           *)
(*                                                                         *)
(* A Python value is the record [t, s, kids]: t is the Python type name,   *)
(* s a scalar payload (or an ndarray's dtype) and kids the children, a     *)
(* function from string keys to values (list and ndarray elements are      *)
(* keyed "0", "1", ...).  A path is [dir, name]: dir the sequence of       *)
(* directory names, name the file name split at its dots, so that          *)
(* <<"a", ".tar", ".h5">> is a.tar.h5.  A file system is [files, dirs]:    *)
(* files maps every existing path to its content [enc, val].               *)
(***************************************************************************)
EXTENDS Integers, Sequences, FiniteSets, TLC

VARIABLES
    fs,          \* the file system
    loaders,     \* DataManager._loaders: format -> loader class
    converters,  \* DataManager._converters: <<source, target>> -> converter class
    regLog,      \* the register_* calls made so far, oldest first
    last,        \* the last operation: its name, arguments and outcome
    pre,         \* the file system before the last operation
    nops,        \* number of file operations made so far
    obj,         \* the loader object a caller constructed itself (SpecCodec)
    config,      \* Config.config: the configuration tree (SpecConfig)
    setLog       \* the Config.set calls that returned, oldest first

vars == <<fs, loaders, converters, regLog, last, pre, nops, obj, config, setLog>>

(***************************************************************************)
(* Bounds of the model.                                                    *)
(***************************************************************************)
MaxOps == 1
MaxRegs == 3
MaxSets == 2

(***************************************************************************)
(* FormatType (the enum) and the classes bound to it.                      *)
(***************************************************************************)
FormatType == {"hdf5", "zarr", "rlds", "lerobot", "json", "pickle", "numpy", "auto"}
AUTO == "auto"
ConcreteFormats == FormatType \ {AUTO}

\* The formats in the order _register_default_converters lists them.
FormatList == <<"hdf5", "zarr", "rlds", "lerobot", "json", "pickle", "numpy">>

LoaderClassOf(f) ==
    CASE f = "hdf5" -> "HDF5Loader"
      [] f = "zarr" -> "ZarrLoader"
      [] f = "rlds" -> "RLDSLoader"
      [] f = "lerobot" -> "LeRobotLoader"
      [] f = "json" -> "JSONLoader"
      [] f = "pickle" -> "PickleLoader"
      [] f = "numpy" -> "NumPyLoader"

ConverterClassOf(f) ==
    CASE f = "hdf5" -> "HDF5Converter"
      [] f = "zarr" -> "ZarrConverter"
      [] f = "rlds" -> "RLDSConverter"
      [] f = "lerobot" -> "LeRobotConverter"
      [] f = "json" -> "JSONConverter"
      [] f = "pickle" -> "PickleConverter"
      [] f = "numpy" -> "NumPyConverter"

\* dict.get's answer for a missing key, and any other falsy class argument.
None == "None"

LoaderClasses == {LoaderClassOf(f) : f \in ConcreteFormats}
ConverterClasses == {ConverterClassOf(f) : f \in ConcreteFormats}

\* The format a loader class implements.
FormatOfClass(c) == CHOOSE f \in ConcreteFormats : LoaderClassOf(f) = c

(***************************************************************************)
(* Python values.                                                          *)
(***************************************************************************)
Mk(t, s, kids) == [t |-> t, s |-> s, kids |-> kids]

NoKids == <<>>
PyNone == Mk("NoneType", "", NoKids)
PyInt(n) == Mk("int", n, NoKids)
PyFloat(x) == Mk("float", x, NoKids)
PyStr(x) == Mk("str", x, NoKids)
PyBool(b) == Mk("bool", IF b THEN "True" ELSE "False", NoKids)
\* An object no serializer knows (a lambda, an open file).
PyObject == Mk("object", "", NoKids)
PyDict(kids) == Mk("dict", "", kids)
EmptyDict == PyDict(NoKids)

IdxKey == <<"0", "1", "2", "3", "4">>
IdxOf(k) == CHOOSE i \in 1..Len(IdxKey) : IdxKey[i] = k
SeqKids(seq) == [k \in {IdxKey[i] : i \in 1..Len(seq)} |-> seq[IdxOf(k)]]
PyList(seq) == Mk("list", "", SeqKids(seq))
\* A one-dimensional ndarray of the given dtype, and a zero-dimensional one.
NdArray(dtype, seq) == Mk("ndarray", dtype, SeqKids(seq))
NdArray0(dtype, v) == Mk("ndarray0", dtype, SeqKids(<<v>>))

IsDict(v) == v.t = "dict"
IsNdArray(v) == v.t \in {"ndarray", "ndarray0"}
Keys(v) == DOMAIN v.kids
Size(v) == Cardinality(DOMAIN v.kids)

\* Iteration order of a dict's keys (insertion order): the values of the model
\* are built with their keys inserted in this order.
KeyOrder == <<"a", "b", "c", "data", "episodes", "episode_id", "steps", "metadata",
              "num_episodes", "format", "0", "1", "2", "3", "4">>
OrderedKeys(v) == SelectSeq(KeyOrder, LAMBDA k : k \in DOMAIN v.kids)

\* str(v) for a scalar is its text; for anything else the text is kept as the
\* value it was made from.
PyStrOf(v) ==
    IF v.t \in {"int", "float", "str", "bool"} THEN PyStr(v.s)
    ELSE IF v.t = "NoneType" THEN PyStr("None")
    ELSE Mk("str", "repr", SeqKids(<<v>>))

\* `key in data`: membership test; a TypeError on a value that is no container.
IsContainer(v) == v.t \in {"dict", "list", "str", "ndarray"}
Contains(v, k) ==
    IF v.t = "dict" THEN k \in DOMAIN v.kids
    ELSE IF v.t = "list" THEN \E i \in DOMAIN v.kids : v.kids[i] = PyStr(k)
    ELSE FALSE

(***************************************************************************)
(* Paths (pathlib.Path).                                                   *)
(***************************************************************************)
MkPath(dir, name) == [dir |-> dir, name |-> name]

\* Path.suffix: the last dotted part of the name, "" when there is none.
Suffix(p) == IF Len(p.name) > 1 THEN p.name[Len(p.name)] ELSE ""

\* Path.with_suffix(ext)
WithSuffix(p, ext) ==
    LET base == IF Len(p.name) > 1 THEN SubSeq(p.name, 1, Len(p.name) - 1) ELSE p.name
    IN [p EXCEPT !.name = IF ext = "" THEN base ELSE Append(base, ext)]

\* str.lower() on the suffixes of the model.
Lower(s) ==
    CASE s = ".H5" -> ".h5"
      [] s = ".HDF5" -> ".hdf5"
      [] s = ".JSON" -> ".json"
      [] s = ".Json" -> ".json"
      [] s = ".NPY" -> ".npy"
      [] s = ".ZARR" -> ".zarr"
      [] s = ".PKL" -> ".pkl"
      [] OTHER -> s

\* Path.relative_to(base) for a path under base, and base / rel.
IsPrefix(a, b) == Len(a) <= Len(b) /\ SubSeq(b, 1, Len(a)) = a
RelativeTo(p, base) == MkPath(SubSeq(p.dir, Len(base) + 1, Len(p.dir)), p.name)
Join(base, rel) == MkPath(base \o rel.dir, rel.name)

\* Every ancestor directory of a directory, itself included.
Ancestors(dir) == {SubSeq(dir, 1, i) : i \in 0..Len(dir)}

(***************************************************************************)
(* The file system.                                                        *)
(***************************************************************************)
Content(enc, val) == [enc |-> enc, val |-> val]
\* Bytes no parser accepts, and the empty file open(path, "w") leaves.
Garbage == Content("garbage", PyNone)
EmptyFile == Content("empty", PyNone)

Exists(f, p) == p \in DOMAIN f.files
\* A Zarr store is a directory; every other content is a regular file.
IsDir(f, p) == Exists(f, p) /\ f.files[p].enc = "zarr"
IsFile(f, p) == Exists(f, p) /\ f.files[p].enc # "zarr"
EncAt(f, p) == IF Exists(f, p) THEN f.files[p].enc ELSE "absent"

\* Path.mkdir(parents=True, exist_ok=True)
MkdirParents(f, dir) == [f EXCEPT !.dirs = @ \cup Ancestors(dir)]
WriteFile(f, p, c) == [f EXCEPT !.files = (p :> c) @@ f.files]

\* What an operation did to the file system, besides the state it leaves.
Ev(kind, p) == [kind |-> kind, path |-> p]

\* The outcome of a call: the exception raised ("none": it returned), the value
\* returned, the file system it leaves and the I/O it made.
Out(exc, ret, f, io) == [exc |-> exc, ret |-> ret, fs |-> f, io |-> io]
Raised(o) == o.exc # "none"

(***************************************************************************)
(* numpy: np.array and the dtype it infers.                                *)
(***************************************************************************)
DTypeOf(v) ==
    CASE v.t = "int" -> "int64"
      [] v.t = "float" -> "float64"
      [] v.t = "bool" -> "bool"
      [] v.t = "str" -> "<U"
      [] OTHER -> "object"

\* np.array([value]): a one-element array.
NpArrayOfScalar(v) == Mk("ndarray", DTypeOf(v), SeqKids(<<v>>))

\* The dtype np.array infers for a list whose elements have the types ts.
ListDType(ts) ==
    IF ts = {} THEN "float64"
    ELSE IF ts = {"int"} THEN "int64"
    ELSE IF ts \subseteq {"int", "float"} THEN "float64"
    ELSE IF ts = {"bool"} THEN "bool"
    ELSE IF ts \subseteq {"int", "float", "bool", "str"} THEN "<U"
    ELSE "object"

\* An element of a list as an element of an array of the dtype.
AsDType(dtype, e) ==
    IF dtype = "float64" THEN PyFloat(e.s)
    ELSE IF dtype = "<U" THEN PyStr(e.s)
    ELSE e

ListAsArray(v, dtype) == Mk("ndarray", dtype, [k \in DOMAIN v.kids |-> AsDType(dtype, v.kids[k])])

\* np.array(value) for a list or tuple.
NpArrayOfList(v) == ListAsArray(v, ListDType({v.kids[k].t : k \in DOMAIN v.kids}))

\* np.array(value) / np.asanyarray(value) for any value.
NpArray(v) ==
    IF IsNdArray(v) THEN v
    ELSE IF v.t = "list" THEN NpArrayOfList(v)
    ELSE NdArray0(DTypeOf(v), v)

\* ndarray.tolist()
ToList(v) == IF v.t = "ndarray0" THEN v.kids["0"] ELSE Mk("list", "", v.kids)

(***************************************************************************)
(* BaseDataLoader (src/rdm/core/__init__.py).  A loader object is          *)
(* [cls, path, mode].                                                      *)
(***************************************************************************)
Loader(cls, p, mode) == [cls |-> cls, path |-> p, mode |-> mode]

\* A mutation of _validate_path: a path that does not exist is accepted.
_validate_path_any(f, p) == "none"

\* BaseDataLoader._validate_path: "none", or the exception it raises.
_validate_path(f, p) == IF ~Exists(f, p) THEN "FileNotFoundError" ELSE "none"

\* BaseDataLoader.__init__ (and the subclasses' __init__, which only keep the
\* mode): the exception raised constructing a loader on p.
LoaderInit(f, p) == Out(_validate_path(f, p), PyNone, f, {Ev("stat", p)})

\* Opening a regular file for writing: open(p, "w"), h5py.File(p, "w"),
\* TFRecordWriter(p), np.save(p): fails on a directory.
CanOpenForWrite(f, p) == ~IsDir(f, p)

\* `Path(path) if path else self.path` in every save: NoPath is the None default.
NoPath == MkPath(<<>>, <<>>)
SavePath(self, path) == IF path = NoPath THEN self.path ELSE path

(***************************************************************************)
(* HDF5Loader and ZarrLoader (src/rdm/formats/hdf5, src/rdm/formats/zarr): *)
(* the recursive tree codecs.                                              *)
(***************************************************************************)
\* The else branch of HDF5Loader._recursively_write_group: the array a leaf
\* becomes, and whether create_dataset takes it (h5py has no conversion for
\* numpy's unicode dtype, with or without compression).
\* `value = np.array(value)` / `np.array([value])` of the else branch.
LeafArray(v) ==
    IF IsNdArray(v) THEN v
    ELSE IF v.t = "list" THEN NpArrayOfList(v)
    ELSE NpArrayOfScalar(v)

\* `value.astype('S')` for an object array: every element through str().
StrBytes(x) == Mk("bytes", x.s, x.kids)
AsTypeS(arr) ==
    IF arr.s = "object"
    THEN Mk(arr.t, "S", [k \in DOMAIN arr.kids |-> StrBytes(PyStrOf(arr.kids[k]))])
    ELSE arr

\* group.create_dataset(key, data=arr): [ok, val].
H5Create(arr) == [ok |-> arr.s # "<U", val |-> arr]
ZarrCreate(arr) == [ok |-> arr.s # "object", val |-> arr]

H5Dataset(v) == H5Create(AsTypeS(LeafArray(v)))

\* The else branch of ZarrLoader._recursively_write_group: no object-array
\* handling, and zarr refuses an object array that comes without a codec.
ZarrDataset(v) == ZarrCreate(LeafArray(v))

LeafOf(lib, v) == IF lib = "hdf5" THEN H5Dataset(v) ELSE ZarrDataset(v)

\* A group under construction: [ok, kids], kids being what the group holds
\* and ok whether no exception has been raised so far.
NewGroup == [ok |-> TRUE, kids |-> NoKids]
GroupWritten(sub) == [ok |-> sub.ok, val |-> PyDict(sub.kids)]

\* The group after the item k, written as `one` ([ok, val]): a subgroup stays
\* as far as it was written, a dataset that was refused is not created.
WithItem(acc, k, one) ==
    [ok |-> one.ok,
     kids |-> IF one.ok \/ IsDict(one.val) THEN (k :> one.val) @@ acc.kids ELSE acc.kids]

\* The loop of _recursively_write_group(group, data) over the keys ks still to
\* write, in order; the first exception ends it.
RECURSIVE WriteItems(_, _, _, _)
WriteItems(lib, d, ks, acc) ==
    IF ks = <<>> \/ ~acc.ok THEN acc
    ELSE WriteItems(lib, d, Tail(ks),
                    WithItem(acc, Head(ks),
                             IF IsDict(d.kids[Head(ks)])
                             THEN GroupWritten(WriteItems(lib, d.kids[Head(ks)],
                                                          OrderedKeys(d.kids[Head(ks)]), NewGroup))
                             ELSE LeafOf(lib, d.kids[Head(ks)])))

\* HDF5Loader._recursively_write_group / ZarrLoader._recursively_write_group
\* on the root: data.items() is an AttributeError on a value that is no dict.
_recursively_write_group(lib, data) ==
    IF ~IsDict(data) THEN [ok |-> FALSE, kids |-> NoKids]
    ELSE WriteItems(lib, data, OrderedKeys(data), NewGroup)

\* `with h5py.File(p, "w") as f: self._recursively_write_group(f, data)` and
\* `store = zarr.open(str(p), mode="w"); self._recursively_write_group(...)`:
\* [ok, fs].  h5py cannot create a file where a directory is, zarr cannot
\* create a store where a regular file is.
StoreBlocked(lib, f, p) == IF lib = "hdf5" THEN IsDir(f, p) ELSE IsFile(f, p)
StoreWritten(lib, f, p, r) == [ok |-> r.ok, fs |-> WriteFile(f, p, Content(lib, PyDict(r.kids)))]
WriteStore(lib, f, p, data) ==
    IF StoreBlocked(lib, f, p) THEN [ok |-> FALSE, fs |-> f]
    ELSE StoreWritten(lib, f, p, _recursively_write_group(lib, data))

\* HDF5Loader._recursively_read_group / ZarrLoader._recursively_read_group:
\* groups become dicts and datasets arrays, which is how the store's content
\* is kept.
_recursively_read_group(c) == c.val

\* HDF5Loader.load / ZarrLoader.load: the file is opened in the loader's mode.
\* "r" reads; "w" creates or truncates first; "a" reads, creating if missing.
StoreLoad(lib, f, self) ==
    LET p == self.path
        fresh == WriteFile(f, p, Content(lib, EmptyDict))
    IN IF self.mode = "w" /\ ~StoreBlocked(lib, f, p)
       THEN Out("none", EmptyDict, fresh, {Ev("write", p)})
       ELSE IF self.mode = "a" /\ ~Exists(f, p)
       THEN Out("none", EmptyDict, fresh, {Ev("write", p)})
       ELSE IF self.mode \in {"r", "a"} /\ EncAt(f, p) = lib
       THEN Out("none", _recursively_read_group(f.files[p]), f, {Ev("read", p)})
       ELSE Out("DataValidationError", PyNone, f, {Ev("read", p)})

\* HDF5Loader.save / ZarrLoader.save
\* The outcome of a write w ([ok, fs]) inside a try block that raises exc on
\* an exception and returns ret otherwise.
Written(w, exc, ret, io) == Out(IF w.ok THEN "none" ELSE exc, ret, w.fs, io)

\* The I/O of a save: the parent directories are made, the target is written.
SaveIo(p) == {Ev("mkdir", p), Ev("write", p)}

StoreSaveAt(lib, f, p, data) ==
    Written(WriteStore(lib, MkdirParents(f, p.dir), p, data), "DataValidationError",
            PyNone, SaveIo(p))

StoreSave(lib, f, self, data, path) == StoreSaveAt(lib, f, SavePath(self, path), data)

\* The try block of HDF5Loader.validate / ZarrLoader.validate: the data is
\* written to the loader's own path; an exception is the outcome's exc.
StoreValidateBody(lib, f, self, data) ==
    Written(WriteStore(lib, f, self.path, data), "Exception", PyBool(TRUE),
            {Ev("write", self.path)})

\* `try: ...; return True / except Exception: return False` of every validate.
ValidateNoCatch(o) == o
ValidateCatch(o) == IF Raised(o) THEN Out("none", PyBool(FALSE), o.fs, o.io) ELSE o

HDF5Loader_load(f, self) == StoreLoad("hdf5", f, self)
HDF5Loader_save(f, self, data, path) == StoreSave("hdf5", f, self, data, path)
HDF5Loader_validate(f, self, data) == ValidateCatch(StoreValidateBody("hdf5", f, self, data))

ZarrLoader_load(f, self) == StoreLoad("zarr", f, self)
ZarrLoader_save(f, self, data, path) == StoreSave("zarr", f, self, data, path)
ZarrLoader_validate(f, self, data) == ValidateCatch(StoreValidateBody("zarr", f, self, data))

(***************************************************************************)
(* JSONLoader (src/rdm/formats/json).                                      *)
(***************************************************************************)
\* json.dump(data, default=self._json_serializer) followed by json.load: what
\* the text holds.  Arrays go through tolist(), unknown objects through str().
RECURSIVE JsonEncode(_)
JsonEncode(v) ==
    IF v.t \in {"dict", "list"} THEN Mk(v.t, "", [k \in DOMAIN v.kids |-> JsonEncode(v.kids[k])])
    ELSE IF IsNdArray(v) THEN JsonEncode(ToList(v))
    ELSE IF v.t \in {"int", "float", "str", "bool", "NoneType"} THEN v
    ELSE PyStrOf(v)

\* `with open(p, "w") as f: json.dump(value, f, ...)`: [ok, fs].
JsonWrite(f, p, value) ==
    IF ~CanOpenForWrite(f, p) THEN [ok |-> FALSE, fs |-> f]
    ELSE [ok |-> TRUE, fs |-> WriteFile(f, p, Content("json", JsonEncode(value)))]

\* `with open(p, "r") as f: json.load(f)`: [ok, val].
JsonRead(f, p) ==
    IF EncAt(f, p) = "json" THEN [ok |-> TRUE, val |-> f.files[p].val]
    ELSE [ok |-> FALSE, val |-> PyNone]

\* The outcome of a read r ([ok, val]) of p inside the try block of a load.
ReadOutcome(r, f, p) ==
    Out(IF r.ok THEN "none" ELSE "DataValidationError", r.val, f, {Ev("read", p)})

JSONLoader_load(f, self) == ReadOutcome(JsonRead(f, self.path), f, self.path)

JsonSaveAt(f, p, data) ==
    Written(JsonWrite(MkdirParents(f, p.dir), p, data), "DataValidationError", PyNone, SaveIo(p))

JSONLoader_save(f, self, data, path) == JsonSaveAt(f, SavePath(self, path), data)

\* json.dumps with the default serializer takes every value of the model.
JSONLoader_validate(f, self, data) == ValidateCatch(Out("none", PyBool(TRUE), f, {}))

(***************************************************************************)
(* PickleLoader (src/rdm/formats/pickle).                                  *)
(***************************************************************************)
RECURSIVE Picklable(_)
Picklable(v) == v.t # "object" /\ \A k \in DOMAIN v.kids : Picklable(v.kids[k])

PickleLoader_load(f, self) ==
    LET p == self.path
        data == f.files[p].val
    IN IF EncAt(f, p) # "pickle" THEN Out("DataValidationError", PyNone, f, {Ev("read", p)})
       ELSE Out("none", IF IsDict(data) THEN data ELSE PyDict("data" :> data), f,
                {Ev("read", p)})

\* open(p, "wb") truncates before pickle.dump can fail.
PickleWrite(f, p, data) ==
    IF ~CanOpenForWrite(f, p) THEN [ok |-> FALSE, fs |-> f]
    ELSE IF ~Picklable(data) THEN [ok |-> FALSE, fs |-> WriteFile(f, p, EmptyFile)]
    ELSE [ok |-> TRUE, fs |-> WriteFile(f, p, Content("pickle", data))]

PickleSaveAt(f, p, data) ==
    Written(PickleWrite(MkdirParents(f, p.dir), p, data), "DataValidationError", PyNone,
            SaveIo(p))

PickleLoader_save(f, self, data, path) == PickleSaveAt(f, SavePath(self, path), data)

PickleLoader_validate(f, self, data) ==
    ValidateCatch(Out(IF Picklable(data) THEN "none" ELSE "Exception", PyBool(TRUE), f, {}))

(***************************************************************************)
(* NumPyLoader (src/rdm/formats/numpy).                                    *)
(***************************************************************************)
\* np.save(file, arr): ".npy" is appended to a name that does not end with it.
NpSaveTarget(p) == IF Suffix(p) = ".npy" THEN p ELSE [p EXCEPT !.name = Append(@, ".npy")]

\* np.savez_compressed(p, **data): [ok, fs]; `**data` needs a mapping.
NpSavez(f, p, data) ==
    IF ~IsDict(data) \/ ~CanOpenForWrite(f, p) THEN [ok |-> FALSE, fs |-> f]
    ELSE [ok |-> TRUE,
          fs |-> WriteFile(f, p, Content("npz", PyDict([k \in Keys(data) |-> NpArray(data.kids[k])])))]

\* len(data) is defined for these types.
HasLen(v) == v.t \in {"dict", "list", "str", "ndarray"}
PyLen(v) == IF v.t = "str" THEN Len(v.s) ELSE Size(v)

\* `key = list(data.keys())[0]; np.save(save_path, data[key])`: [ok, fs].
NpSaveOnly(f, target, data) ==
    IF ~CanOpenForWrite(f, target) THEN [ok |-> FALSE, fs |-> f]
    ELSE [ok |-> TRUE,
          fs |-> WriteFile(f, target,
                           Content("npy", NpArray(data.kids[CHOOSE k \in Keys(data) : TRUE])))]

\* The body of NumPyLoader.save on the file system f, the directories made.
NumPySaveAt(f, p, data) ==
    IF Suffix(p) = ".npz"
    THEN Written(NpSavez(f, p, data), "DataValidationError", PyNone, SaveIo(p))
    ELSE IF ~HasLen(data) THEN Out("DataValidationError", PyNone, f, {Ev("mkdir", p)})
    ELSE IF PyLen(data) = 1 /\ ~IsDict(data)
    THEN Out("DataValidationError", PyNone, f, {Ev("mkdir", p)})
    ELSE IF PyLen(data) = 1
    THEN Written(NpSaveOnly(f, NpSaveTarget(p), data), "DataValidationError", PyNone,
                 {Ev("mkdir", p), Ev("write", NpSaveTarget(p))})
    ELSE Written(NpSavez(f, WithSuffix(p, ".npz"), data), "DataValidationError", PyNone,
                 {Ev("mkdir", p), Ev("write", WithSuffix(p, ".npz"))})

NumPyLoader_save(f, self, data, path) ==
    NumPySaveAt(MkdirParents(f, SavePath(self, path).dir), SavePath(self, path), data)

\* np.load refuses object arrays (allow_pickle is False by default).
HasObjectArray(v) == \E k \in Keys(v) : v.kids[k].s = "object"

\* np.load(p) and what load makes of it, c being the content of p: [ok, val].
NpLoad(p, c) ==
    IF Suffix(p) = ".npz"
    THEN IF c.enc = "npz" /\ ~HasObjectArray(c.val) THEN [ok |-> TRUE, val |-> c.val]
         ELSE [ok |-> FALSE, val |-> PyNone]
    ELSE IF c.enc = "npy" /\ c.val.s # "object"
         THEN [ok |-> TRUE, val |-> PyDict("data" :> c.val)]
         ELSE IF c.enc = "npz"
         THEN [ok |-> TRUE, val |-> PyDict("data" :> Mk("NpzFile", "", c.val.kids))]
         ELSE [ok |-> FALSE, val |-> PyNone]

NumPyLoader_load(f, self) ==
    IF ~Exists(f, self.path) THEN ReadOutcome([ok |-> FALSE, val |-> PyNone], f, self.path)
    ELSE ReadOutcome(NpLoad(self.path, f.files[self.path]), f, self.path)

\* for key, value in data.items(): np.array(value)
NumPyLoader_validate(f, self, data) ==
    ValidateCatch(Out(IF IsDict(data) THEN "none" ELSE "Exception", PyBool(TRUE), f, {}))

(***************************************************************************)
(* RLDSLoader (src/rdm/formats/rlds).                                      *)
(***************************************************************************)
\* str(n) for the small counts of the model.
NumStr(n) == IdxKey[n + 1]
\* A list of n copies of v.
Repeat(v, n) == PyList([i \in 1..n |-> v])

\* `"episodes" in data` raises TypeError on a value that is no container, and
\* data["episodes"] on a container that is no dict.
HasEpisodesRaises(data) ==
    \/ ~IsContainer(data)
    \/ ~IsDict(data) /\ data.t # "ndarray" /\ Contains(data, "episodes")

\* RLDSLoader._convert_to_rlds_format: the value the save loop iterates.
_convert_to_rlds_format(data) ==
    IF IsDict(data) /\ Contains(data, "episodes") THEN data.kids["episodes"]
    ELSE PyList(<<data>>)

\* RLDSLoader._create_tf_example: the record written for an episode holds
\* episode_id 0 and empty steps, whatever the episode.
_create_tf_example(episode) == EmptyDict

\* RLDSLoader._parse_tf_example: a placeholder for every record.
_parse_tf_example(example) == PyDict("steps" :> PyList(<<>>) @@ "metadata" :> EmptyDict)

\* RLDSLoader._parse_rlds_dataset on a file holding n records.
_parse_rlds_dataset(n) ==
    PyDict("episodes" :> Repeat(_parse_tf_example(EmptyDict), n)
           @@ "metadata" :> PyDict("num_episodes" :> PyInt(NumStr(n))
                                   @@ "format" :> PyStr("rlds")))

\* An empty file is a TFRecord file of no records.
\* The number of records tf.data.TFRecordDataset yields for a content; -1
\* for a content that is no TFRecord file.
NoRecords == 0 - 1
RecordCount(c) ==
    IF c.enc = "tfrecord" THEN Size(c.val) ELSE IF c.enc = "empty" THEN 0 ELSE NoRecords

RLDSRead(n) ==
    IF n = NoRecords THEN [ok |-> FALSE, val |-> PyNone]
    ELSE [ok |-> TRUE, val |-> _parse_rlds_dataset(n)]

RLDSLoader_load(f, self) ==
    IF ~Exists(f, self.path) THEN ReadOutcome([ok |-> FALSE, val |-> PyNone], f, self.path)
    ELSE ReadOutcome(RLDSRead(RecordCount(f.files[self.path])), f, self.path)

\* The writer creates the file before the loop over the episodes, which fails
\* on a value that cannot be iterated.
\* `with tf.io.TFRecordWriter(p) as writer: for episode in rlds_data: ...`:
\* [ok, fs], one record for each episode.
RLDSWrite(f, p, rlds_data) ==
    IF ~CanOpenForWrite(f, p) THEN [ok |-> FALSE, fs |-> f]
    ELSE IF ~HasLen(rlds_data)
    THEN [ok |-> FALSE, fs |-> WriteFile(f, p, Content("tfrecord", PyList(<<>>)))]
    ELSE [ok |-> TRUE,
          fs |-> WriteFile(f, p, Content("tfrecord",
                     PyList([i \in 1..PyLen(rlds_data) |-> _create_tf_example(EmptyDict)])))]

RLDSSaveAt(f, p, data) ==
    IF HasEpisodesRaises(data) THEN Out("DataValidationError", PyNone, f, {Ev("mkdir", p)})
    ELSE Written(RLDSWrite(f, p, _convert_to_rlds_format(data)), "DataValidationError",
                 PyNone, SaveIo(p))

RLDSLoader_save(f, self, data, path) ==
    RLDSSaveAt(MkdirParents(f, SavePath(self, path).dir), SavePath(self, path), data)

\* The try block of RLDSLoader.validate.
RLDSValidateBody(f, data) ==
    LET steps == data.kids["steps"]
    IN IF ~IsContainer(data) THEN Out("Exception", PyNone, f, {})
       ELSE IF ~Contains(data, "steps") THEN Out("none", PyBool(FALSE), f, {})
       ELSE IF ~IsDict(data) THEN Out("Exception", PyNone, f, {})
       ELSE Out("none", PyBool(steps.t \in {"list", "dict"}), f, {})

RLDSLoader_validate(f, self, data) == ValidateCatch(RLDSValidateBody(f, data))

(***************************************************************************)
(* LeRobotLoader (src/rdm/formats/lerobot).                                *)
(***************************************************************************)
\* LeRobotLoader._convert_to_lerobot_format
_convert_to_lerobot_format(data) ==
    IF Contains(data, "episodes") THEN data
    ELSE PyDict("episodes" :> PyList(<<data>>)
                @@ "metadata" :> PyDict("num_episodes" :> PyInt("1")
                                        @@ "format" :> PyStr("lerobot")))

\* LeRobotLoader._load_single_file: [ok, val]
_load_single_file(f, p) ==
    IF Suffix(p) = ".json" THEN JsonRead(f, p) ELSE [ok |-> FALSE, val |-> PyNone]

\* LeRobotLoader._load_directory: the stores of the model hold no
\* episode_*.json file.
_load_directory(f, p) ==
    PyDict("episodes" :> PyList(<<>>)
           @@ "metadata" :> PyDict("num_episodes" :> PyInt("0")
                                   @@ "format" :> PyStr("lerobot")))

LeRobotLoader_load(f, self) ==
    IF IsFile(f, self.path) THEN ReadOutcome(_load_single_file(f, self.path), f, self.path)
    ELSE ReadOutcome([ok |-> TRUE, val |-> _load_directory(f, self.path)], f, self.path)

LeRobotSaveAt(f, p, data) ==
    IF ~IsContainer(data) THEN Out("DataValidationError", PyNone, f, {Ev("mkdir", p)})
    ELSE Written(JsonWrite(f, p, _convert_to_lerobot_format(data)), "DataValidationError",
                 PyNone, SaveIo(p))

LeRobotLoader_save(f, self, data, path) ==
    LeRobotSaveAt(MkdirParents(f, SavePath(self, path).dir), SavePath(self, path), data)

\* LeRobotLoader._validate_episode: [raises, ret]
_validate_episode(episode) ==
    IF ~IsContainer(episode) THEN [raises |-> TRUE, ret |-> FALSE]
    ELSE IF ~(Contains(episode, "episode_id") /\ Contains(episode, "steps"))
    THEN [raises |-> FALSE, ret |-> FALSE]
    ELSE IF ~IsDict(episode) THEN [raises |-> TRUE, ret |-> FALSE]
    ELSE [raises |-> FALSE, ret |-> episode.kids["steps"].t = "list"]

\* The try block of LeRobotLoader.validate.
\* `for episode in data["episodes"]: if not self._validate_episode(episode):
\* return False`, bad being the episodes that do not validate.
FirstOf(bad) == CHOOSE k \in bad : \A j \in bad : IdxOf(k) <= IdxOf(j)
EpisodesLoop(f, episodes, bad) ==
    IF bad = {} THEN Out("none", PyBool(TRUE), f, {})
    ELSE IF _validate_episode(episodes.kids[FirstOf(bad)]).raises
    THEN Out("Exception", PyNone, f, {})
    ELSE Out("none", PyBool(FALSE), f, {})

EpisodesValid(f, episodes) ==
    IF episodes.t # "list" THEN Out("none", PyBool(FALSE), f, {})
    ELSE EpisodesLoop(f, episodes,
                      {k \in Keys(episodes) : ~_validate_episode(episodes.kids[k]).ret})

LeRobotValidateBody(f, data) ==
    IF ~IsContainer(data) THEN Out("Exception", PyNone, f, {})
    ELSE IF ~Contains(data, "episodes") THEN Out("none", PyBool(FALSE), f, {})
    ELSE IF ~IsDict(data) THEN Out("Exception", PyNone, f, {})
    ELSE EpisodesValid(f, data.kids["episodes"])

LeRobotLoader_validate(f, self, data) == ValidateCatch(LeRobotValidateBody(f, data))

(***************************************************************************)
(* Dispatch on the loader class.                                           *)
(***************************************************************************)
LoaderLoad(f, self) ==
    CASE self.cls = "HDF5Loader" -> HDF5Loader_load(f, self)
      [] self.cls = "ZarrLoader" -> ZarrLoader_load(f, self)
      [] self.cls = "RLDSLoader" -> RLDSLoader_load(f, self)
      [] self.cls = "LeRobotLoader" -> LeRobotLoader_load(f, self)
      [] self.cls = "JSONLoader" -> JSONLoader_load(f, self)
      [] self.cls = "PickleLoader" -> PickleLoader_load(f, self)
      [] self.cls = "NumPyLoader" -> NumPyLoader_load(f, self)

LoaderSave(f, self, data, path) ==
    CASE self.cls = "HDF5Loader" -> HDF5Loader_save(f, self, data, path)
      [] self.cls = "ZarrLoader" -> ZarrLoader_save(f, self, data, path)
      [] self.cls = "RLDSLoader" -> RLDSLoader_save(f, self, data, path)
      [] self.cls = "LeRobotLoader" -> LeRobotLoader_save(f, self, data, path)
      [] self.cls = "JSONLoader" -> JSONLoader_save(f, self, data, path)
      [] self.cls = "PickleLoader" -> PickleLoader_save(f, self, data, path)
      [] self.cls = "NumPyLoader" -> NumPyLoader_save(f, self, data, path)

LoaderValidate(f, self, data) ==
    CASE self.cls = "HDF5Loader" -> HDF5Loader_validate(f, self, data)
      [] self.cls = "ZarrLoader" -> ZarrLoader_validate(f, self, data)
      [] self.cls = "RLDSLoader" -> RLDSLoader_validate(f, self, data)
      [] self.cls = "LeRobotLoader" -> LeRobotLoader_validate(f, self, data)
      [] self.cls = "JSONLoader" -> JSONLoader_validate(f, self, data)
      [] self.cls = "PickleLoader" -> PickleLoader_validate(f, self, data)
      [] self.cls = "NumPyLoader" -> NumPyLoader_validate(f, self, data)

(***************************************************************************)
(* DataManager: the registry (src/rdm/core/__init__.py).                   *)
(***************************************************************************)
\* dict.get(key): None for a key that has no entry.
Get(table, key) == IF key \in DOMAIN table THEN table[key] ELSE None

\* A mutation of register_loader: the first binding of a key is kept.
register_loader_keep_first(L, format_type, loader_class) ==
    IF format_type \in DOMAIN L THEN L ELSE (format_type :> loader_class) @@ L

\* DataManager.register_loader: self._loaders[format_type] = loader_class
register_loader(L, format_type, loader_class) == (format_type :> loader_class) @@ L

\* DataManager.register_converter: self._converters[(source, target)] = cls
register_converter(C, source_format, target_format, converter_class) ==
    (<<source_format, target_format>> :> converter_class) @@ C

\* DataManager._register_default_loaders: seven register_loader calls.
RECURSIVE RegisterLoadersFrom(_, _)
RegisterLoadersFrom(L, i) ==
    IF i > Len(FormatList) THEN L
    ELSE RegisterLoadersFrom(register_loader(L, FormatList[i], LoaderClassOf(FormatList[i])), i + 1)

_register_default_loaders == RegisterLoadersFrom(<<>>, 1)

\* A mutation of the guard of _register_default_converters: identity pairs too.
ConverterPairWantedAll(source_format, target_format) == TRUE

\* `if source_format != target_format` in _register_default_converters
ConverterPairWanted(source_format, target_format) == source_format # target_format

\* DataManager._register_default_converters: the two nested loops over the
\* format list, pair number n (from 0) being <<formats[i], formats[j]>>.
RECURSIVE RegisterConvertersFrom(_, _)
RegisterConvertersFrom(C, n) ==
    LET m == Len(FormatList)
        source_format == FormatList[(n \div m) + 1]
        target_format == FormatList[(n % m) + 1]
    IN IF n >= m * m THEN C
       ELSE RegisterConvertersFrom(
                IF ConverterPairWanted(source_format, target_format)
                THEN register_converter(C, source_format, target_format,
                                        ConverterClassOf(source_format))
                ELSE C,
                n + 1)

_register_default_converters == RegisterConvertersFrom(<<>>, 0)

(***************************************************************************)
(* DataManager: load, save, convert, validate.                             *)
(***************************************************************************)
\* A mutation of _detect_format: the suffix is compared as written.
SuffixAsWritten(p) == Suffix(p)

\* `suffix = path.suffix.lower()` in _detect_format
DetectSuffix(p) == Lower(Suffix(p))

\* DataManager._detect_format: format_mapping.get(suffix, FormatType.HDF5)
format_mapping(suffix) ==
    CASE suffix \in {".h5", ".hdf5"} -> "hdf5"
      [] suffix = ".zarr" -> "zarr"
      [] suffix = ".json" -> "json"
      [] suffix \in {".pkl", ".pickle"} -> "pickle"
      [] suffix \in {".npy", ".npz"} -> "numpy"
      [] OTHER -> "hdf5"

_detect_format(p) == format_mapping(DetectSuffix(p))

\* The outcome of b after a: a's exception ends the call, else b's outcome with
\* the I/O of both.
Then(a, b) == IF Raised(a) THEN a ELSE [b EXCEPT !.io = a.io \cup b.io]

\* HDF5Loader and ZarrLoader take the mode keyword; the other loaders keep it
\* in self.kwargs and never look at it.
NewLoader(cls, p, mode) ==
    Loader(cls, p, IF cls \in {"HDF5Loader", "ZarrLoader"} THEN mode ELSE "r")

\* `if format_type == FormatType.AUTO: format_type = self._detect_format(path)`
Resolve(path, format_type) ==
    IF format_type = AUTO THEN _detect_format(path) ELSE format_type

\* `loader = loader_class(path, **kwargs); return loader.load()` after the
\* lookup of the loader class.
LoadWith(f, loader_class, path, mode) ==
    IF loader_class = None THEN Out("ValueError", PyNone, f, {})
    ELSE Then(LoaderInit(f, path), LoaderLoad(f, NewLoader(loader_class, path, mode)))

\* DataManager.load(path, format_type, **kwargs)
DataManager_load(f, L, path, format_type, mode) ==
    LoadWith(f, Get(L, Resolve(path, format_type)), path, mode)

\* `loader = loader_class(path, **kwargs); loader.save(data)` after the lookup.
SaveWith(f, loader_class, data, path, mode) ==
    IF loader_class = None THEN Out("ValueError", PyNone, f, {})
    ELSE Then(LoaderInit(f, path), LoaderSave(f, NewLoader(loader_class, path, mode), data, NoPath))

\* DataManager.save(data, path, format_type, **kwargs): no AUTO resolution.
DataManager_save(f, L, data, path, format_type, mode) ==
    SaveWith(f, Get(L, format_type), data, path, mode)

\* A mutation of convert's AUTO resolution: the target format is detected from
\* the source path.
ResolveTargetFromSource(source_path, target_path, target_format) ==
    Resolve(source_path, target_format)

\* `if target_format == FormatType.AUTO: target_format = self._detect_format(target_path)`
ResolveTarget(source_path, target_path, target_format) ==
    Resolve(target_path, target_format)

\* A mutation of convert: the save is made whatever the load did.
SaveLoadedAnyway(loaded, L, target_path, target_format, mode) ==
    DataManager_save(loaded.fs, L, loaded.ret, target_path, target_format, mode)

\* DataManager.convert(source_path, target_path, source_format, target_format)
\* `self.save(source_data, target_path, target_format, **kwargs)` of convert,
\* loaded being the outcome of the load before it.
SaveLoaded(loaded, L, target_path, target_format, mode) ==
    Then(loaded, DataManager_save(loaded.fs, L, loaded.ret, target_path, target_format, mode))

\* A mutation of convert: it asks the converter table for the pair of formats
\* and refuses a pair that has no binding.
ConvertByConverter(f, L, source_path, target_path, source_format, target_format, mode) ==
    IF <<Resolve(source_path, source_format),
         ResolveTarget(source_path, target_path, target_format)>> \notin DOMAIN converters
    THEN Out("ValueError", PyNone, f, {})
    ELSE SaveLoaded(DataManager_load(f, L, source_path, Resolve(source_path, source_format), mode),
                    L, target_path, ResolveTarget(source_path, target_path, target_format), mode)

DataManager_convert(f, L, source_path, target_path, source_format, target_format, mode) ==
    SaveLoaded(DataManager_load(f, L, source_path, Resolve(source_path, source_format), mode),
               L, target_path, ResolveTarget(source_path, target_path, target_format), mode)

\* `return loader.validate(data)` of validate, loaded being the outcome of
\* loader.load() before it.
ValidateLoaded(loaded, loader) ==
    Then(loaded, LoaderValidate(loaded.fs, loader, loaded.ret))

\* `loader = loader_class(path); data = loader.load(); ...` after the lookup.
ValidateWith(f, loader_class, path) ==
    IF loader_class = None THEN Out("ValueError", PyNone, f, {})
    ELSE ValidateLoaded(Then(LoaderInit(f, path), LoaderLoad(f, NewLoader(loader_class, path, "r"))),
                        NewLoader(loader_class, path, "r"))

\* DataManager.validate(path, format_type)
DataManager_validate(f, L, path, format_type) ==
    ValidateWith(f, Get(L, Resolve(path, format_type)), path)

(***************************************************************************)
(* DataManager.batch_convert.                                              *)
(***************************************************************************)
\* The extensions table of _find_files: extensions.get(format_type, [])
FindExtensions(format_type) ==
    CASE format_type = "hdf5" -> <<".h5", ".hdf5">>
      [] format_type = "zarr" -> <<".zarr">>
      [] format_type = "json" -> <<".json">>
      [] format_type = "pickle" -> <<".pkl", ".pickle">>
      [] format_type = "numpy" -> <<".npy", ".npz">>
      [] OTHER -> <<>>

\* A mutation of _find_files: glob in place of rglob, the directory's own
\* entries only.
RGlobFlat(f, directory, ext) ==
    {p \in DOMAIN f.files : directory = p.dir /\ p.name[Len(p.name)] = ext}

\* directory.rglob("*" + ext): every path below the directory, at any depth,
\* whose name ends with ext.
RGlob(f, directory, ext) ==
    {p \in DOMAIN f.files : IsPrefix(directory, p.dir) /\ p.name[Len(p.name)] = ext}

\* The orders in which a directory walk may yield the paths of a set.
Orderings(S) ==
    {q \in [1..Cardinality(S) -> S] : \A i, j \in 1..Cardinality(S) : q[i] = q[j] => i = j}

\* DataManager._find_files: the lists it may return, one extension after the
\* other, each in the order of the directory walk.
RECURSIVE FindFrom(_, _, _)
FindFrom(f, directory, exts) ==
    IF exts = <<>> THEN {<<>>}
    ELSE {head \o tail : head \in Orderings(RGlob(f, directory, Head(exts))),
                         tail \in FindFrom(f, directory, Tail(exts))}

_find_files(f, directory, format_type) == FindFrom(f, directory, FindExtensions(format_type))

\* DataManager._get_extension: extension_mapping.get(format_type, ".h5")
_get_extension(format_type) ==
    CASE format_type = "hdf5" -> ".h5"
      [] format_type = "zarr" -> ".zarr"
      [] format_type = "json" -> ".json"
      [] format_type = "pickle" -> ".pkl"
      [] format_type = "numpy" -> ".npy"
      [] OTHER -> ".h5"

\* The target of one file of a batch.
BatchTarget(source_file, source_dir, target_dir, target_format) ==
    Join(target_dir, WithSuffix(RelativeTo(source_file, source_dir),
                                _get_extension(target_format)))

\* A mutation of the loop of batch_convert: no except clause.
BatchNoExcept(o) == o

\* `try: self.convert(...) / except Exception as e: logger.error(...)`
BatchExcept(o) == [o EXCEPT !.exc = "none"]

\* The state of the loop of batch_convert: [exc, fs, log], the log holding
\* one entry for each conversion attempted, with the exception it raised.
BatchStart(f) == [exc |-> "none", fs |-> f, log |-> <<>>]

\* One iteration, o being the outcome of its call of convert.
BatchRecord(acc, source_file, target_file, o) ==
    [exc |-> BatchExcept(o).exc, fs |-> o.fs,
     log |-> Append(acc.log, [source |-> source_file, target |-> target_file, exc |-> o.exc])]

BatchStep(acc, L, source_file, target_file, source_format, target_format, mode) ==
    BatchRecord(acc, source_file, target_file,
                DataManager_convert(acc.fs, L, source_file, target_file,
                                    source_format, target_format, mode))

\* `for source_file in source_files:` over the files still to convert; an
\* exception that escapes an iteration ends the loop.
RECURSIVE BatchLoop(_, _, _, _, _, _, _, _)
BatchLoop(acc, L, files, source_dir, target_dir, source_format, target_format, mode) ==
    IF files = <<>> \/ acc.exc # "none" THEN acc
    ELSE BatchLoop(BatchStep(acc, L, Head(files),
                             BatchTarget(Head(files), source_dir, target_dir, target_format),
                             source_format, target_format, mode),
                   L, Tail(files), source_dir, target_dir, source_format, target_format, mode)

\* DataManager.batch_convert, source_files being the list _find_files returned.
DataManager_batch_convert(f, L, source_dir, target_dir, source_format, target_format, mode, source_files) ==
    BatchLoop(BatchStart(MkdirParents(f, target_dir)), L, source_files, source_dir,
              target_dir, source_format, target_format, mode)

(***************************************************************************)
(* The command line (rdm.cli): each command makes its own DataManager.      *)
(* The outcome of a command has exc "SystemExit" and ret 1 when the        *)
(* command calls sys.exit(1), exc "none" and ret 0 when it returns.        *)
(***************************************************************************)
\* `FormatType(args.format) if args.format else FormatType.AUTO`: None is the
\* option left out.
FormatArg(arg) == IF arg = None THEN AUTO ELSE arg

Exit1(f, io) == Out("SystemExit", PyInt("1"), f, io)
Exit0(f, io) == Out("none", PyInt("0"), f, io)

\* `try: ...; print(...) / except Exception as e: logger.error(...); sys.exit(1)`
CliCatch(o) == IF Raised(o) THEN Exit1(o.fs, o.io) ELSE Exit0(o.fs, o.io)

\* convert_command
convert_command(f, source, target, source_format, target_format) ==
    CliCatch(DataManager_convert(f, _register_default_loaders, source, target,
                                 FormatArg(source_format), FormatArg(target_format), "r"))

\* batch_convert_command, b being the outcome of dm.batch_convert: [exc, fs, log].
BatchExit(b) ==
    [exc |-> IF b.exc # "none" THEN "SystemExit" ELSE "none",
     ret |-> PyInt(IF b.exc # "none" THEN "1" ELSE "0"), fs |-> b.fs, log |-> b.log]

batch_convert_command(f, source_dir, target_dir, source_format, target_format, source_files) ==
    BatchExit(DataManager_batch_convert(f, _register_default_loaders, source_dir, target_dir,
                                        FormatArg(source_format), FormatArg(target_format),
                                        "r", source_files))

\* validate_command: `if is_valid: print(...) / else: print(...); sys.exit(1)`
\* inside the try block; sys.exit raises SystemExit, which is no Exception.
ValidExit(o) ==
    IF Raised(o) \/ o.ret # PyBool(TRUE) THEN Exit1(o.fs, o.io) ELSE Exit0(o.fs, o.io)

validate_command(f, path, format) ==
    ValidExit(DataManager_validate(f, _register_default_loaders, path, FormatArg(format)))

\* BaseDataLoader.get_metadata and the codecs' own: a record with the name of
\* the loader class; what fails in a codec's own part is logged, not raised.
get_metadata(f, self) ==
    Out("none", PyDict("format" :> PyStr(self.cls)), f, {Ev("stat", self.path)})

\* info_command after the lookup `loader_class = dm._loaders.get(format_type)`:
\* no detection is made, the registry is asked for the format as given.
InfoWith(f, loader_class, path) ==
    IF loader_class = None THEN Exit1(f, {})
    ELSE CliCatch(Then(LoaderInit(f, path),
                       get_metadata(f, NewLoader(loader_class, path, "r"))))

info_command(f, path, format) ==
    InfoWith(f, Get(_register_default_loaders, FormatArg(format)), path)

(***************************************************************************)
(* The state machine.  `last` records the last call and its outcome.       *)
(***************************************************************************)
NoLast ==
    [op |-> "none", path |-> NoPath, path2 |-> NoPath, fmt |-> "", fmt2 |-> "",
     data |-> PyNone, mode |-> "", cls |-> "", exc |-> "none", ret |-> PyNone,
     io |-> {}, log |-> <<>>, files |-> <<>>, key |-> <<>>]

NoObj == Loader(None, NoPath, "r")

\* No Config object made.
NoConfig == PyNone

\* A file system holding the files of an assignment path -> content, the
\* content "absent" standing for no file, and the directories they are in.
Absent == Content("absent", PyNone)
MkFs(assign) ==
    LET present == {p \in DOMAIN assign : assign[p].enc # "absent"}
    IN [files |-> [p \in present |-> assign[p]],
        dirs |-> UNION {Ancestors(p.dir) : p \in present}]

\* The content save leaves at p for a value, written by the codec itself.
Saved(cls, p, data) ==
    LoaderSave(MkFs(p :> EmptyFile), Loader(cls, p, "r"), data, NoPath).fs.files[p]

\* Sample values (after src/tests/test_rdm.py): arrays and nested metadata.
ArrF == NdArray("float64", <<PyFloat("0.5"), PyFloat("1.5")>>)
SampleNumeric == PyDict("a" :> ArrF @@ "b" :> PyDict("c" :> PyInt("42")))
SampleText == PyDict("a" :> ArrF @@ "b" :> PyDict("c" :> PyStr("test")))

\* The paths the callers of the model use.
SrcDir == <<"src">>
DstDir == <<"dst">>
PathH5 == MkPath(SrcDir, <<"a", ".h5">>)
PathJson == MkPath(DstDir, <<"a", ".json">>)
PathNoExt == MkPath(DstDir, <<"a">>)
OpPaths == {PathH5, PathJson, PathNoExt}
OpData == {SampleNumeric, SampleText}
LoadModes == {"r", "w"}

\* The contents a path holds when the manager is constructed: nothing, bytes
\* no parser accepts, or what a codec saved there.
Contents(p, codecs) ==
    {Absent, Garbage} \cup {Saved(c[1], p, c[2]) : c \in codecs}

InitFiles ==
    {MkFs(PathH5 :> a @@ PathJson :> j @@ PathNoExt :> x) :
        a \in Contents(PathH5, {<<"HDF5Loader", SampleNumeric>>}) \ {Absent},
        j \in Contents(PathJson, {<<"JSONLoader", SampleText>>}),
        x \in Contents(PathNoExt, {<<"HDF5Loader", SampleNumeric>>}) \ {Garbage}}

Init ==
    /\ fs \in InitFiles
    /\ loaders = _register_default_loaders
    /\ converters = _register_default_converters
    /\ regLog = <<>>
    /\ last = NoLast
    /\ pre = fs
    /\ nops = 0
    /\ obj = NoObj
    /\ config = NoConfig
    /\ setLog = <<>>

\* A file operation with outcome o, recorded as `rec`.
FileOp(o, rec) ==
    /\ nops < MaxOps
    /\ fs' = o.fs
    /\ pre' = fs
    /\ last' = [rec EXCEPT !.exc = o.exc, !.ret = o.ret, !.io = o.io]
    /\ nops' = nops + 1
    /\ UNCHANGED <<loaders, converters, regLog, obj, config, setLog>>

\* A mutation of load: the class found for the path is kept under AUTO.
LoadCaching(path, format_type, mode) ==
    /\ nops < MaxOps
    /\ fs' = DataManager_load(fs, loaders, path, format_type, mode).fs
    /\ pre' = fs
    /\ last' = [NoLast EXCEPT !.op = "load", !.path = path, !.fmt = format_type, !.mode = mode]
    /\ nops' = nops + 1
    /\ loaders' = register_loader(loaders, AUTO, Get(loaders, Resolve(path, format_type)))
    /\ UNCHANGED <<converters, regLog, obj, config, setLog>>

Load(path, format_type, mode) ==
    FileOp(DataManager_load(fs, loaders, path, format_type, mode),
           [NoLast EXCEPT !.op = "load", !.path = path, !.fmt = format_type, !.mode = mode])

Save(data, path, format_type) ==
    FileOp(DataManager_save(fs, loaders, data, path, format_type, "r"),
           [NoLast EXCEPT !.op = "save", !.path = path, !.fmt = format_type, !.data = data])

Validate(path, format_type) ==
    FileOp(DataManager_validate(fs, loaders, path, format_type),
           [NoLast EXCEPT !.op = "validate", !.path = path, !.fmt = format_type])

Convert(source_path, target_path, source_format, target_format) ==
    FileOp(DataManager_convert(fs, loaders, source_path, target_path,
                               source_format, target_format, "r"),
           [NoLast EXCEPT !.op = "convert", !.path = source_path, !.path2 = target_path,
                          !.fmt = source_format, !.fmt2 = target_format])

\* register_loader / register_converter called by the user of the manager.
RegisterLoader(format_type, loader_class) ==
    /\ loaders' = register_loader(loaders, format_type, loader_class)
    /\ last' = [NoLast EXCEPT !.op = "register_loader", !.fmt = format_type,
                              !.cls = loader_class]
    /\ pre' = fs
    /\ UNCHANGED <<fs, converters, nops, obj, config, setLog>>

RegisterConverter(source_format, target_format, converter_class) ==
    /\ converters' = register_converter(converters, source_format, target_format,
                                        converter_class)
    /\ last' = [NoLast EXCEPT !.op = "register_converter", !.fmt = source_format,
                              !.fmt2 = target_format, !.cls = converter_class]
    /\ pre' = fs
    /\ UNCHANGED <<fs, loaders, nops, obj, config, setLog>>

\* The arguments the callers of the model use, and the registration a user makes.
LoadFormats == {AUTO, "hdf5", "json"}
SaveFormats == {AUTO, "hdf5", "json", "numpy", "rlds"}
ConvertSourceFormats == {AUTO, "hdf5"}
ConvertTargetFormats == {AUTO, "json", "rlds"}
UserLoaders == {<<"json", None>>}

Next ==
    \/ \E path \in OpPaths, format_type \in LoadFormats, mode \in LoadModes :
           Load(path, format_type, mode)
    \/ \E data \in OpData, path \in OpPaths, format_type \in SaveFormats :
           Save(data, path, format_type)
    \/ \E path \in OpPaths, format_type \in LoadFormats : Validate(path, format_type)
    \/ \E source_path \in OpPaths, target_path \in OpPaths,
          source_format \in ConvertSourceFormats, target_format \in ConvertTargetFormats :
           Convert(source_path, target_path, source_format, target_format)
    \/ \E r \in UserLoaders : RegisterLoader(r[1], r[2]) /\ UNCHANGED regLog

Spec == Init /\ [][Next]_vars

(***************************************************************************)
(* The registry alone: register calls on a constructed manager, with the   *)
(* history of the calls in regLog.                                         *)
(***************************************************************************)
\* A call of register_loader or register_converter as the history keeps it:
\* the key is <<format>> for a loader, <<source, target>> for a converter.
Call(key, cls) == [key |-> key, cls |-> cls]
Logged(key, cls) ==
    /\ Len(regLog) < MaxRegs
    /\ regLog' = Append(regLog, Call(key, cls))

RegLoaderFormats == {"json", AUTO}
RegLoaderClasses == {"PickleLoader", None}
RegConverterPairs == {<<"hdf5", "json">>, <<"json", "json">>}
RegConverterClasses == {"JSONConverter", "HDF5Converter"}

NextRegistry ==
    \/ \E format_type \in RegLoaderFormats, loader_class \in RegLoaderClasses :
           Logged(<<format_type>>, loader_class) /\ RegisterLoader(format_type, loader_class)
    \/ \E k \in RegConverterPairs, converter_class \in RegConverterClasses :
           Logged(k, converter_class) /\ RegisterConverter(k[1], k[2], converter_class)

SpecRegistry == Init /\ [][NextRegistry]_vars

\* The binding of a key in the two tables taken together.
Binding(key) ==
    IF Len(key) = 1 THEN Get(loaders, key[1]) ELSE Get(converters, <<key[1], key[2]>>)
Bound(key) ==
    IF Len(key) = 1 THEN key[1] \in DOMAIN loaders ELSE <<key[1], key[2]>> \in DOMAIN converters

\* The binding construction gives a key, None for a key it does not bind.
DefaultBinding(key) ==
    IF Len(key) = 1 THEN Get(_register_default_loaders, key[1])
    ELSE Get(_register_default_converters, <<key[1], key[2]>>)

\* The calls of the history that are for the key, and the last of them.
CallsFor(key) == {i \in 1..Len(regLog) : regLog[i].key = key}
LastCallFor(key) == CHOOSE i \in CallsFor(key) : \A j \in CallsFor(key) : j <= i

AllKeys ==
    {<<f>> : f \in FormatType} \cup {<<s, t>> : s \in FormatType, t \in FormatType}

(***************************************************************************)
(* C8: immediately after construction (no register call made by a user)    *)
(* the loader table binds exactly the seven concrete formats, each to its  *)
(* loader class and AUTO to nothing, and the converter table binds exactly *)
(* the 42 ordered pairs of distinct concrete formats, each to the          *)
(* converter class of the source format.                                   *)
(***************************************************************************)
C8_InitialRegistry ==
    regLog = <<>> =>
        /\ DOMAIN loaders = ConcreteFormats
        /\ \A f \in ConcreteFormats : loaders[f] = LoaderClassOf(f)
        /\ DOMAIN converters = {<<s, t>> : s \in ConcreteFormats, t \in ConcreteFormats} \
                               {<<f, f>> : f \in ConcreteFormats}
        /\ Cardinality(DOMAIN converters) = 42
        /\ \A k \in DOMAIN converters : converters[k] = ConverterClassOf(k[1])

C8_Witness ==
    /\ regLog = <<>>
    /\ last.op = "none"
    /\ <<"hdf5", "json">> \in DOMAIN converters
    /\ <<"json", "json">> \notin DOMAIN converters

\* The binding of a key is the class of the most recent call for it, and the
\* binding of construction when no call was for it.
C9_LastWriteWins ==
    \A key \in AllKeys :
        IF CallsFor(key) # {}
        THEN Bound(key) /\ Binding(key) = regLog[LastCallFor(key)].cls
        ELSE Binding(key) = DefaultBinding(key)

\* A register call leaves every other key as it was, and changes nothing when
\* it repeats the call before it.
C9_Step ==
    Len(regLog') = Len(regLog) + 1 =>
        /\ \A key \in AllKeys \ {regLog'[Len(regLog')].key} :
               Binding(key)' = Binding(key) /\ Bound(key)' = Bound(key)
        /\ (regLog # <<>> /\ regLog'[Len(regLog')] = regLog[Len(regLog)]) =>
               loaders' = loaders /\ converters' = converters

(***************************************************************************)
(* C9: register_loader and register_converter are idempotent upserts, the  *)
(* last write winning: after any sequence of register calls the binding of *)
(* a key is the class of the most recent call for that key (the binding of *)
(* construction for a key no call was for); a call that repeats the call   *)
(* before it changes neither table; a call leaves the binding of every     *)
(* other key as it was.                                                    *)
(***************************************************************************)
C9_Upsert == [](C9_LastWriteWins) /\ [][C9_Step]_vars

\* An overwritten binding: two calls for the same key with different classes.
C9_Witness ==
    /\ Len(regLog) >= 2
    /\ regLog[Len(regLog)].key = regLog[Len(regLog) - 1].key
    /\ regLog[Len(regLog)].cls # regLog[Len(regLog) - 1].cls
    /\ Binding(regLog[Len(regLog)].key) = regLog[Len(regLog)].cls

(***************************************************************************)
(* Claims about load, save, validate and convert, under Spec.              *)
(***************************************************************************)
\* `if not loader_class`: the registry has no binding for the format.
Unregistered(L, format_type) == Get(L, format_type) = None

\* The last call was this operation, made on the state kept in `pre`.
Called(op) == last.op = op /\ nops > 0

\* A load returned a mapping that holds every top-level key of the value.
LoadHasKeys(o, value) == o.exc = "none" /\ IsDict(o.ret) /\ Keys(value) \subseteq Keys(o.ret)

(***************************************************************************)
(* C3: DataManager.save(value, path, F) for a registered format F succeeds *)
(* when no file exists at path; afterwards the file exists and             *)
(* DataManager.load(path, F) returns a mapping that holds every top-level  *)
(* key of value.                                                           *)
(***************************************************************************)
C3_SaveOnNewPath ==
    (Called("save") /\ ~Unregistered(loaders, last.fmt) /\ ~Exists(pre, last.path)) =>
        /\ last.exc = "none"
        /\ Exists(fs, last.path)
        /\ LoadHasKeys(DataManager_load(fs, loaders, last.path, last.fmt, "r"), last.data)

\* A call that raised exc and left the file system f had the outcome o.
SameOutcome(exc, f, o) == exc = o.exc /\ f = o.fs

(***************************************************************************)
(* C6: convert(src, dst, AUTO, AUTO) has the outcome of                    *)
(* convert(src, dst, detect(src), detect(dst)) made on the same file       *)
(* system with the same registry: the same exception, or the same          *)
(* resulting file system.                                                  *)
(***************************************************************************)
C6_AutoEquivalence ==
    (Called("convert") /\ last.fmt = AUTO /\ last.fmt2 = AUTO) =>
        SameOutcome(last.exc, fs,
                    DataManager_convert(pre, loaders, last.path, last.path2,
                                        _detect_format(last.path),
                                        _detect_format(last.path2), "r"))

\* A conversion with both formats detected, between paths of different
\* formats, that wrote its target.
C6_Witness ==
    /\ Called("convert") /\ last.fmt = AUTO /\ last.fmt2 = AUTO
    /\ _detect_format(last.path) # _detect_format(last.path2)
    /\ last.exc = "none"
    /\ fs # pre

\* The last call asked for a format, as resolved, that the registry does not
\* bind.
RequestsUnregistered ==
    \/ last.op \in {"load", "validate"} /\ Unregistered(loaders, Resolve(last.path, last.fmt))
    \/ last.op = "save" /\ Unregistered(loaders, last.fmt)
    \/ last.op = "convert" /\ \/ Unregistered(loaders, Resolve(last.path, last.fmt))
                              \/ Unregistered(loaders, Resolve(last.path2, last.fmt2))

(***************************************************************************)
(* C7: when the registry has no binding for the format a call resolves to, *)
(* load, save, validate and convert raise ValueError before any file is    *)
(* read, created or written; convert with an unbound target format fails   *)
(* before the source is loaded.                                            *)
(***************************************************************************)
C7_UnregisteredBeforeIO ==
    (nops > 0 /\ RequestsUnregistered) =>
        last.exc = "ValueError" /\ last.io = {} /\ fs = pre

\* The load of a path, with the format as a call resolves it, raises: the path
\* is missing, or the file is one the format's parser does not accept.
Unloadable(f, L, path, format_type) ==
    ~Exists(f, path) \/ Raised(DataManager_load(f, L, path, format_type, "r"))

(***************************************************************************)
(* C11: DataManager.validate(path, format) is total: for a missing path    *)
(* and for a corrupt or unparsable file it returns False, and it raises    *)
(* for no path at all.                                                     *)
(***************************************************************************)
C11_ValidateTotal ==
    (Called("validate") /\ ~Unregistered(loaders, Resolve(last.path, last.fmt))) =>
        /\ last.exc = "none"
        /\ Unloadable(pre, loaders, last.path, last.fmt) => last.ret = PyBool(FALSE)

(***************************************************************************)
(* C13: for every registered format F and every well-formed value, a file  *)
(* written by DataManager.save(value, path, F) is reported valid           *)
(* afterwards: DataManager.validate(path, F) returns True.                 *)
(***************************************************************************)
C13_SavedIsValid ==
    (Called("save") /\ last.exc = "none") =>
        LET o == DataManager_validate(fs, loaders, last.path, last.fmt)
        IN o.exc = "none" /\ o.ret = PyBool(TRUE)

(***************************************************************************)
(* C15: load never changes the file system: for every format and every     *)
(* argument DataManager.load takes, the mode keyword it forwards to the    *)
(* HDF5 and Zarr loaders included, every file is after load, returned or   *)
(* raised, as it was before.                                               *)
(***************************************************************************)
C15_LoadKeepsFiles ==
    Called("load") => fs = pre

\* convert raised what the load of its source raised, and did no more than
\* that load: no save was attempted, no file was created or changed.
EndedWithLoad(ld) == last.exc = ld.exc /\ last.io = ld.io /\ fs = pre

\* convert raised, or not, as the save of what was loaded did.
EndedWithSave(ld) ==
    last.exc = DataManager_save(ld.fs, loaders, ld.ret, last.path2,
                                Resolve(last.path2, last.fmt2), "r").exc

(***************************************************************************)
(* C17: convert of one file gives its caller the first error as it was     *)
(* raised: the exception of the load of the source when that load raises,  *)
(* and then no save is attempted, the target is neither created nor        *)
(* changed; the exception of the save otherwise.                           *)
(***************************************************************************)
C17_ConvertPropagates ==
    Called("convert") =>
        LET ld == DataManager_load(pre, loaders, last.path, Resolve(last.path, last.fmt), "r")
        IN IF Raised(ld) THEN EndedWithLoad(ld) ELSE EndedWithSave(ld)

\* A source no parser accepts, converted to a target that holds a file.
C17_Witness ==
    /\ Called("convert")
    /\ last.exc = "DataValidationError"
    /\ EncAt(pre, last.path) = "garbage"
    /\ last.path2 # last.path
    /\ Exists(pre, last.path2)

(***************************************************************************)
(* batch_convert: a source tree src/ and a target directory dst/.          *)
(***************************************************************************)
SrcA == MkPath(SrcDir, <<"a", ".h5">>)
SrcB == MkPath(SrcDir, <<"b", ".h5">>)
SrcC == MkPath(<<"src", "sub">>, <<"c", ".hdf5">>)
SrcD == MkPath(SrcDir, <<"d", ".json">>)
DstA == MkPath(DstDir, <<"a", ".json">>)
DstB == MkPath(DstDir, <<"b", ".json">>)

InitFilesBatch ==
    {MkFs(SrcA :> a @@ SrcB :> b @@ SrcC :> c @@ SrcD :> d @@ DstA :> ta @@ DstB :> tb) :
        a \in Contents(SrcA, {<<"HDF5Loader", SampleNumeric>>}) \ {Absent},
        b \in Contents(SrcB, {<<"HDF5Loader", SampleNumeric>>}),
        c \in Contents(SrcC, {<<"HDF5Loader", SampleNumeric>>}) \ {Garbage},
        d \in Contents(SrcD, {<<"JSONLoader", SampleText>>}) \ {Garbage},
        ta \in {Absent, EmptyFile},
        tb \in {Absent, EmptyFile}}

InitBatch ==
    /\ fs \in InitFilesBatch
    /\ loaders = _register_default_loaders
    /\ converters = _register_default_converters
    /\ regLog = <<>>
    /\ last = NoLast
    /\ pre = fs
    /\ nops = 0
    /\ obj = NoObj
    /\ config = NoConfig
    /\ setLog = <<>>

\* batch_convert(SrcDir, DstDir, source_format, target_format), source_files
\* being the list _find_files returns.
BatchConvert(source_format, target_format, source_files) ==
    LET o == DataManager_batch_convert(fs, loaders, SrcDir, DstDir, source_format,
                                       target_format, "r", source_files)
    IN /\ nops < MaxOps
       /\ fs' = o.fs
       /\ pre' = fs
       /\ last' = [NoLast EXCEPT !.op = "batch_convert", !.path = MkPath(SrcDir, <<>>),
                                 !.path2 = MkPath(DstDir, <<>>), !.fmt = source_format,
                                 !.fmt2 = target_format, !.exc = o.exc, !.log = o.log,
                                 !.files = source_files]
       /\ nops' = nops + 1
       /\ UNCHANGED <<loaders, converters, regLog, obj, config, setLog>>

BatchSourceFormats == {AUTO, "hdf5", "json", "lerobot"}
BatchTargetFormats == {AUTO, "json", "pickle", "lerobot"}

NextBatch ==
    \E source_format \in BatchSourceFormats, target_format \in BatchTargetFormats :
        \E source_files \in _find_files(MkdirParents(fs, DstDir), SrcDir, source_format) :
            BatchConvert(source_format, target_format, source_files)

SpecBatch == InitBatch /\ [][NextBatch]_vars

\* The files of a list whose load, as convert makes it, raises.
FailsLoad(f, L, path, format_type) == Raised(DataManager_load(f, L, path, format_type, "r"))
Failing(f, L, files, format_type) ==
    {i \in 1..Len(files) : FailsLoad(f, L, files[i], format_type)}

\* The files a directory holds, at any depth.
FilesUnder(f, dir) == {p \in DOMAIN f.files : IsPrefix(dir, p.dir)}

(***************************************************************************)
(* C1: batch_convert over a source directory holding N files of the source *)
(* format, exactly one of which fails to load, the target directory        *)
(* holding no file before the call, returns normally and leaves exactly    *)
(* N-1 files in the target directory.                                      *)
(***************************************************************************)
C1_BatchIsolation ==
    (/\ Called("batch_convert")
     /\ Cardinality(Failing(pre, loaders, last.files, last.fmt)) = 1
     /\ FilesUnder(pre, DstDir) = {}) =>
        /\ last.exc = "none"
        /\ Cardinality(FilesUnder(fs, DstDir)) = Len(last.files) - 1

(***************************************************************************)
(* C2: every file batch_convert enumerates has its conversion attempted    *)
(* exactly once, in the order of the enumeration, whatever the outcome of  *)
(* the files before it, and no exception of a conversion escapes           *)
(* batch_convert.                                                          *)
(***************************************************************************)
C2_EveryFileAttempted ==
    Called("batch_convert") =>
        /\ last.exc = "none"
        /\ Len(last.log) = Len(last.files)
        /\ \A i \in 1..Len(last.files) : last.log[i].source = last.files[i]

\* A conversion that raised, followed by one that succeeded.
C2_Witness ==
    /\ Called("batch_convert")
    /\ \E i, j \in 1..Len(last.log) :
           i < j /\ last.log[i].exc # "none" /\ last.log[j].exc = "none"

\* The extensions the manager knows a format by (the table of _find_files).
KnownExtensions(format_type) ==
    {FindExtensions(format_type)[i] : i \in 1..Len(FindExtensions(format_type))}

\* The target of a file of the batch is under the target directory where the
\* source is under the source directory, whatever its suffix.
SamePlace(source_file, target_file) ==
    target_file = Join(DstDir, WithSuffix(RelativeTo(source_file, SrcDir), Suffix(target_file)))

(***************************************************************************)
(* C18: for every file batch_convert processes, the target is the target   *)
(* directory joined with the file's path relative to the source directory, *)
(* its suffix replaced by the extension of the format the target is        *)
(* written in (the format given, or the one detected for AUTO): the        *)
(* extension the manager gives that format and knows it by.                *)
(***************************************************************************)
C18_BatchTargetPath ==
    Called("batch_convert") =>
        \A i \in 1..Len(last.log) :
            /\ SamePlace(last.log[i].source, last.log[i].target)
            /\ Suffix(last.log[i].target)
                   = _get_extension(Resolve(last.log[i].target, last.fmt2))
            /\ Suffix(last.log[i].target)
                   \in KnownExtensions(Resolve(last.log[i].target, last.fmt2))

\* The extensions detection gives a format: those of the table of
\* _detect_format that map to it.
ExtensionsOf(format_type) ==
    {x \in {".h5", ".hdf5", ".zarr", ".json", ".pkl", ".pickle", ".npy", ".npz"} :
        format_mapping(x) = format_type}

\* The files under the source directory, at any depth, whose name ends with
\* an extension of the format.
FilesOfFormat(f, dir, format_type) ==
    {p \in FilesUnder(f, dir) : p.name[Len(p.name)] \in ExtensionsOf(format_type)}

\* The paths of a list, and the sources of the conversions of a log.
Listed(files) == {files[i] : i \in 1..Len(files)}
Attempted(log) == {log[i].source : i \in 1..Len(log)}

(***************************************************************************)
(* C19: for every source format a loader is registered for, batch_convert  *)
(* enumerates, and processes, exactly the files at any depth under the     *)
(* source directory whose name ends with one of the format's extensions,   *)
(* each exactly once.                                                      *)
(***************************************************************************)
C19_BatchEnumeration ==
    (Called("batch_convert") /\ ~Unregistered(loaders, last.fmt)) =>
        /\ Listed(last.files) = FilesOfFormat(pre, SrcDir, last.fmt)
        /\ Len(last.files) = Cardinality(FilesOfFormat(pre, SrcDir, last.fmt))
        /\ Attempted(last.log) = Listed(last.files)
        /\ Len(last.log) = Len(last.files)

\* A batch that found files of both extensions of its format, one of them in
\* a subdirectory, and left a file of another format alone.
C19_Witness ==
    /\ Called("batch_convert")
    /\ last.fmt = "hdf5"
    /\ {SrcA, SrcB, SrcC} \subseteq Listed(last.files)
    /\ Exists(pre, SrcD)
    /\ Len(last.log) = 3

(***************************************************************************)
(* batch_convert on a source directory that holds two files of one format  *)
(* whose names differ in the extension only.                               *)
(***************************************************************************)
SrcA2 == MkPath(SrcDir, <<"a", ".hdf5">>)
SampleSmall == PyDict("a" :> ArrF)

InitFilesTwins ==
    {MkFs(SrcA :> a @@ SrcA2 :> b @@ DstA :> t) :
        a \in Contents(SrcA, {<<"HDF5Loader", SampleNumeric>>}) \ {Absent},
        b \in Contents(SrcA2, {<<"HDF5Loader", SampleSmall>>, <<"HDF5Loader", SampleNumeric>>}),
        t \in {Absent, EmptyFile}}

InitTwins ==
    /\ fs \in InitFilesTwins
    /\ loaders = _register_default_loaders
    /\ converters = _register_default_converters
    /\ regLog = <<>>
    /\ last = NoLast
    /\ pre = fs
    /\ nops = 0
    /\ obj = NoObj
    /\ config = NoConfig
    /\ setLog = <<>>

SpecTwins == InitTwins /\ [][NextBatch]_vars

(***************************************************************************)
(* C28: within one batch_convert call, distinct source files enumerated    *)
(* are given distinct target paths, so that no output of the batch is      *)
(* overwritten by the conversion of another source file of the batch.      *)
(***************************************************************************)
C28_DistinctTargets ==
    Called("batch_convert") =>
        \A i \in DOMAIN last.log : \A j \in DOMAIN last.log :
            last.log[i].source # last.log[j].source =>
                last.log[i].target # last.log[j].target

(***************************************************************************)
(* One manager used for everything: load, save, validate, convert and      *)
(* batch_convert, with loaders and converters registered by the user in    *)
(* between.                                                                *)
(***************************************************************************)
\* The converter a user registers: for a pair construction leaves unbound.
UserConverters == {<<"hdf5", "hdf5", "JSONConverter">>}

NextManager ==
    \/ Next
    \/ NextBatch
    \/ \E c \in UserConverters : RegisterConverter(c[1], c[2], c[3]) /\ UNCHANGED regLog

SpecManager == Init /\ [][NextManager]_vars

\* The operations of the manager that are no registration.
ManagerOps == {"load", "save", "validate", "convert", "batch_convert"}

(***************************************************************************)
(* C26: the loader table and the converter table change only through       *)
(* register_loader and register_converter: a load, save, convert,          *)
(* batch_convert or validate, whether it succeeds or fails, leaves both    *)
(* tables as they were.                                                    *)
(***************************************************************************)
C26_TablesChangeByRegisterOnly ==
    [][/\ last'.op \in ManagerOps => (loaders' = loaders /\ converters' = converters)
       /\ (loaders' # loaders \/ converters' # converters) =>
              last'.op \in {"register_loader", "register_converter"}]_vars

\* A failed operation of a manager whose two tables the user has changed.
C26_Witness ==
    /\ nops > 0
    /\ last.op \in ManagerOps
    /\ last.exc # "none"
    /\ loaders # _register_default_loaders
    /\ converters # _register_default_converters

\* A load through the codec of the source and, when it returns, a save
\* through the codec of the target, AUTO resolved from the two paths: what
\* the loader table alone makes of a conversion.
SaveOf(ld, target, target_format) ==
    IF Raised(ld) THEN ld
    ELSE DataManager_save(ld.fs, loaders, ld.ret, target, Resolve(target, target_format), "r")
LoadThenSave(f, source, target, source_format, target_format) ==
    SaveOf(DataManager_load(f, loaders, source, Resolve(source, source_format), "r"),
           target, target_format)

\* The same for the files of a batch in turn: the file system left and the
\* exception of each file.
RECURSIVE FilesByLoadSave(_, _)
FileByLoadSave(acc, o) == [fs |-> o.fs, excs |-> Append(acc.excs, o.exc)]
FilesByLoadSave(acc, files) ==
    IF files = <<>> THEN acc
    ELSE FilesByLoadSave(
             FileByLoadSave(acc, LoadThenSave(acc.fs, Head(files),
                                              BatchTarget(Head(files), SrcDir, DstDir, last.fmt2),
                                              last.fmt, last.fmt2)),
             Tail(files))

\* The pair of formats a conversion resolved.
PairUsed == <<Resolve(last.path, last.fmt), Resolve(last.path2, last.fmt2)>>

(***************************************************************************)
(* C29: the converter table never influences a conversion: whatever the    *)
(* converter bindings of the manager are (the default ones, a user's, none *)
(* for the pair used), convert and batch_convert on the same file system   *)
(* with the same arguments have the outcome that the loader table alone    *)
(* gives: that of the load of the source followed by the save of the       *)
(* target.                                                                 *)
(***************************************************************************)
C29_ConvertersIrrelevant ==
    /\ Called("convert") =>
           SameOutcome(last.exc, fs,
                       LoadThenSave(pre, last.path, last.path2, last.fmt, last.fmt2))
    /\ Called("batch_convert") =>
           /\ fs = FilesByLoadSave([fs |-> MkdirParents(pre, DstDir), excs |-> <<>>],
                                   last.files).fs
           /\ [i \in DOMAIN last.log |-> last.log[i].exc]
                  = FilesByLoadSave([fs |-> MkdirParents(pre, DstDir), excs |-> <<>>],
                                    last.files).excs

\* A conversion that succeeded for a pair of formats the converter table of
\* the manager does not bind.
C29_Witness ==
    /\ Called("convert")
    /\ last.exc = "none"
    /\ PairUsed \notin DOMAIN converters
    /\ fs # pre

(***************************************************************************)
(* The commands of the command line, run on the source tree src/ and the   *)
(* target directory dst/, with a format option given or left out.          *)
(***************************************************************************)
CliPaths == {SrcA, SrcD, DstA}
CliFormats == {None, "hdf5", "json"}

CliConvert(source, target, source_format, target_format) ==
    FileOp(convert_command(fs, source, target, source_format, target_format),
           [NoLast EXCEPT !.op = "cli_convert", !.path = source, !.path2 = target,
                          !.fmt = source_format, !.fmt2 = target_format])

CliValidate(path, format) ==
    FileOp(validate_command(fs, path, format),
           [NoLast EXCEPT !.op = "cli_validate", !.path = path, !.fmt = format])

CliInfo(path, format) ==
    FileOp(info_command(fs, path, format),
           [NoLast EXCEPT !.op = "cli_info", !.path = path, !.fmt = format])

CliBatchDone(o, source_format, target_format, source_files) ==
    /\ nops < MaxOps
    /\ fs' = o.fs
    /\ pre' = fs
    /\ last' = [NoLast EXCEPT !.op = "cli_batch_convert", !.path = MkPath(SrcDir, <<>>),
                              !.path2 = MkPath(DstDir, <<>>), !.fmt = source_format,
                              !.fmt2 = target_format, !.exc = o.exc, !.ret = o.ret,
                              !.log = o.log, !.files = source_files]
    /\ nops' = nops + 1
    /\ UNCHANGED <<loaders, converters, regLog, obj, config, setLog>>

CliBatchConvert(source_format, target_format, source_files) ==
    CliBatchDone(batch_convert_command(fs, SrcDir, DstDir, source_format, target_format,
                                       source_files),
                 source_format, target_format, source_files)

NextCli ==
    \/ \E source \in CliPaths, target \in CliPaths, sf \in CliFormats, tf \in CliFormats :
           CliConvert(source, target, sf, tf)
    \/ \E path \in CliPaths, format \in CliFormats : CliValidate(path, format)
    \/ \E path \in CliPaths, format \in CliFormats : CliInfo(path, format)
    \/ \E sf \in CliFormats, tf \in CliFormats :
           \E source_files \in _find_files(MkdirParents(fs, DstDir), SrcDir, FormatArg(sf)) :
               CliBatchConvert(sf, tf, source_files)

SpecCli == InitBatch /\ [][NextCli]_vars

\* The command of the last call, made on the file system before it with the
\* format options that detection gives the paths in place of those left out.
Detected(path, arg) == IF arg = None THEN _detect_format(path) ELSE arg
WithDetected ==
    CASE last.op = "cli_convert" ->
             convert_command(pre, last.path, last.path2, Detected(last.path, last.fmt),
                             Detected(last.path2, last.fmt2))
      [] last.op = "cli_validate" ->
             validate_command(pre, last.path, Detected(last.path, last.fmt))
      [] last.op = "cli_info" ->
             info_command(pre, last.path, Detected(last.path, last.fmt))

(***************************************************************************)
(* C20: with a format option left out, a command resolves the format by    *)
(* detection from the path's suffix and then operates on the files:        *)
(* convert, validate and info end as they do with the detected format      *)
(* given (info reporting the metadata of the detected format), and         *)
(* batch-convert, like batch_convert with its default arguments, converts  *)
(* the files of the detected format the directory holds.                   *)
(***************************************************************************)
C20_CliAutoDetect ==
    /\ (last.op \in {"cli_convert", "cli_validate", "cli_info"} /\ nops > 0) =>
           /\ last.exc = WithDetected.exc
           /\ last.ret = WithDetected.ret
           /\ fs = WithDetected.fs
    /\ (Called("cli_batch_convert") /\ last.fmt = None) =>
           FilesOfFormat(pre, SrcDir, _detect_format(last.path)) \subseteq Attempted(last.log)

\* The core call a command made, made again on the file system before it.
CoreOfCommand ==
    CASE last.op = "cli_convert" ->
             DataManager_convert(pre, _register_default_loaders, last.path, last.path2,
                                 FormatArg(last.fmt), FormatArg(last.fmt2), "r")
      [] last.op = "cli_validate" ->
             DataManager_validate(pre, _register_default_loaders, last.path,
                                  FormatArg(last.fmt))
      [] last.op = "cli_info" -> LoaderInit(pre, last.path)

\* The core operation of the last command reported a failure: it raised,
\* validate answered false, or batch_convert logged a file it could not convert.
CoreReportedFailure ==
    IF last.op = "cli_batch_convert"
    THEN last.exc # "none" \/ \E i \in DOMAIN last.log : last.log[i].exc # "none"
    ELSE Raised(CoreOfCommand) \/ CoreOfCommand.ret = PyBool(FALSE)

(***************************************************************************)
(* C21: a command whose core operation reported a failure exits with a     *)
(* non-zero status, a batch-convert in which a file failed to convert      *)
(* included; a command exits with status zero only when no failure was     *)
(* reported.                                                               *)
(***************************************************************************)
C21_CliExitStatus ==
    (nops > 0 /\ last.op \in {"cli_convert", "cli_validate", "cli_info", "cli_batch_convert"}
              /\ CoreReportedFailure)
        => last.ret # PyInt("0")

(***************************************************************************)
(* The codecs used directly: a caller constructs a loader on a path and    *)
(* calls its save, load and validate.                                      *)
(***************************************************************************)
\* Trees whose leaves are numeric arrays, integers, floats and strings.
Leaves == {ArrF, PyInt("42"), PyFloat("0.5"), PyStr("test")}
Trees ==
    {PyDict("a" :> l) : l \in Leaves}
    \cup {PyDict("a" :> ArrF @@ "b" :> PyDict("c" :> l)) : l \in Leaves}

\* An episode as LeRobotLoader validates it, and values that are no mapping
\* or are not what a codec expects.
Episode(steps) == PyDict("episode_id" :> PyInt("0") @@ "steps" :> steps)
Malformed ==
    {EmptyDict, PyNone, PyInt("42"), PyStr("test"), PyObject, PyList(<<>>),
     PyList(<<PyStr("steps"), PyStr("episodes")>>),
     PyDict("a" :> PyObject),
     PyDict("steps" :> PyList(<<>>)),
     PyDict("steps" :> PyInt("42")),
     PyDict("episodes" :> PyInt("42")),
     PyDict("episodes" :> PyList(<<Episode(PyList(<<>>))>>)),
     PyDict("episodes" :> PyList(<<Episode(PyList(<<>>)), Episode(PyInt("42"))>>)),
     PyDict("episodes" :> PyList(<<PyInt("42")>>))}

\* A LeRobot dataset whose one episode has no "steps" key.
NoSteps == PyDict("episodes" :> PyList(<<PyDict("episode_id" :> PyInt("0"))>>))

InitFilesCodec ==
    {MkFs(PathH5 :> a @@ PathJson :> j @@ PathNoExt :> x) :
        a \in Contents(PathH5, {<<"HDF5Loader", SampleNumeric>>}) \ {Absent, Garbage},
        j \in Contents(PathJson, {<<"JSONLoader", SampleText>>,
                                  <<"LeRobotLoader", NoSteps>>}) \ {Absent, Garbage},
        x \in {Absent}}

InitCodec ==
    /\ fs \in InitFilesCodec
    /\ loaders = _register_default_loaders
    /\ converters = _register_default_converters
    /\ regLog = <<>>
    /\ last = NoLast
    /\ pre = fs
    /\ nops = 0
    /\ obj = NoObj
    /\ config = NoConfig
    /\ setLog = <<>>

\* loader_class(path): BaseDataLoader.__init__ raises on a path that does not
\* exist, and no object is made.
Construct(cls, p) ==
    LET o == LoaderInit(fs, p)
    IN /\ obj' = IF Raised(o) THEN NoObj ELSE NewLoader(cls, p, "r")
       /\ last' = [NoLast EXCEPT !.op = "construct", !.path = p, !.cls = cls,
                                 !.exc = o.exc, !.io = o.io]
       /\ pre' = fs
       /\ UNCHANGED <<fs, loaders, converters, regLog, nops, config, setLog>>

\* A call on the object constructed, with outcome o.
CodecOp(o, rec) ==
    /\ obj # NoObj
    /\ nops < MaxOps
    /\ fs' = o.fs
    /\ pre' = fs
    /\ last' = [rec EXCEPT !.cls = obj.cls, !.path = obj.path, !.exc = o.exc,
                           !.ret = o.ret, !.io = o.io]
    /\ nops' = nops + 1
    /\ UNCHANGED <<loaders, converters, regLog, obj, config, setLog>>

CodecSave(data, path) ==
    CodecOp(LoaderSave(fs, obj, data, path),
            [NoLast EXCEPT !.op = "codec_save", !.data = data, !.path2 = path])

CodecLoad == CodecOp(LoaderLoad(fs, obj), [NoLast EXCEPT !.op = "codec_load"])

CodecValidate(data) ==
    CodecOp(LoaderValidate(fs, obj, data), [NoLast EXCEPT !.op = "codec_validate", !.data = data])

NextCodec ==
    \/ \E cls \in LoaderClasses, p \in OpPaths : Construct(cls, p)
    \/ \E data \in Trees, path \in {NoPath, PathJson} : CodecSave(data, path)
    \/ CodecLoad
    \/ \E data \in Trees \cup Malformed : CodecValidate(data)

SpecCodec == InitCodec /\ [][NextCodec]_vars

\* The outcome of load by a loader of the same class constructed on the
\* target the save wrote.
LoadWritten == LoaderLoad(fs, NewLoader(last.cls, SavePath(obj, last.path2), "r"))

(***************************************************************************)
(* C4: for every codec and every tree whose leaves are numeric arrays,     *)
(* integers, floats or strings, save of the tree followed by load of the   *)
(* written target returns a tree equal to it: the same keys at every       *)
(* level, the same leaf values.                                            *)
(***************************************************************************)
C4_RoundTrip ==
    (Called("codec_save") /\ last.data \in Trees) =>
        /\ last.exc = "none"
        /\ LoadWritten.exc = "none"
        /\ LoadWritten.ret = last.data

C12_ValidateIffSave ==
    Called("codec_validate") =>
        (last.ret = PyBool(TRUE) <=> ~Raised(LoaderSave(pre, obj, last.data, NoPath)))

\* The save of the last call left its target as it found it.
TargetUntouched(p) == Exists(pre, p) /\ Exists(fs, p) /\ fs.files[p] = pre.files[p]

(***************************************************************************)
(* C14: a save that raises leaves no file that looks complete: after it    *)
(* either no file is at the target, or the target is as it was before the  *)
(* call, or load of the target raises; a target that loads with part of    *)
(* the value only is never left.                                           *)
(***************************************************************************)
C14_NoFalselyCompleteFile ==
    (Called("codec_save") /\ last.exc # "none") =>
        \/ ~Exists(fs, SavePath(obj, last.path2))
        \/ TargetUntouched(SavePath(obj, last.path2))
        \/ Raised(LoadWritten)

C27_ValidateReadOnly ==
    (nops > 0 /\ last.op \in {"codec_validate", "validate"}) =>
        /\ fs = pre
        /\ \A e \in last.io : e.kind \notin {"write", "mkdir"}

\* The path a save was asked to write: the explicit target, or the path of
\* the loader when none was given.
SaveTarget == IF last.op = "save" THEN last.path ELSE SavePath(obj, last.path2)

(***************************************************************************)
(* C30: a save that succeeds, of any codec, writes the data at exactly the *)
(* target path and creates or modifies no other file; so it is for the     *)
(* NumPy codec with a value of several keys and a target whose suffix is   *)
(* not .npz.                                                               *)
(***************************************************************************)
C30_SaveWritesTargetOnly ==
    (nops > 0 /\ last.op \in {"codec_save", "save"} /\ last.exc = "none") =>
        /\ Exists(fs, SaveTarget)
        /\ Ev("write", SaveTarget) \in last.io
        /\ DOMAIN fs.files \subseteq DOMAIN pre.files \cup {SaveTarget}
        /\ \A p \in DOMAIN pre.files \ {SaveTarget} :
               p \in DOMAIN fs.files /\ fs.files[p] = pre.files[p]

(***************************************************************************)
(* C23: load of the LeRobot format fails with a validation error whenever  *)
(* the stored data violates the structural checks of the format (an        *)
(* "episodes" list, each episode with "episode_id" and a "steps" list);    *)
(* what load returns as a success passes those checks.                     *)
(***************************************************************************)
C23_LeRobotLoadChecked ==
    (Called("codec_load") /\ last.cls = "LeRobotLoader" /\ last.exc = "none") =>
        LeRobotValidateBody(fs, last.ret).ret = PyBool(TRUE)

\* `loaded[k] == v` for a scalar v, as the tests assert it: the value itself,
\* or an array of one element equal to it.
IsScalar(v) == v.t \in {"int", "float", "str", "bool"}
EqualsScalar(x, v) == x = v \/ (IsNdArray(x) /\ Size(x) = 1 /\ \A i \in Keys(x) : x.kids[i] = v)

\* load() on the object whose save has just written.
LoadSameObject == LoaderLoad(fs, obj)

(***************************************************************************)
(* C22: for a codec object, save(value, target) with an explicit target    *)
(* that succeeds, followed by load() on the same object, returns the value *)
(* saved: every top-level key of it, with equal scalars; the target may    *)
(* differ from the path the object was constructed with.                   *)
(***************************************************************************)
C22_SaveTargetThenLoad ==
    (Called("codec_save") /\ last.path2 # NoPath /\ last.exc = "none") =>
        /\ LoadHasKeys(LoadSameObject, last.data)
        /\ \A k \in Keys(last.data) :
               IsScalar(last.data.kids[k]) =>
                   EqualsScalar(LoadSameObject.ret.kids[k], last.data.kids[k])

(***************************************************************************)
(* _detect_format called on paths of every kind of suffix, on any file     *)
(* system and registry.                                                    *)
(***************************************************************************)
DetectDirs == {<<>>, <<"src">>}
DetectNames ==
    {<<"a", x>> : x \in {".h5", ".hdf5", ".zarr", ".json", ".pkl", ".pickle", ".npy", ".npz",
                         ".H5", ".JSON", ".Json", ".NPY", ".txt", ".unknownext", ".tfrecord"}}
    \cup {<<"a">>, <<".h5">>, <<".json">>, <<"a", ".json", ".bak">>, <<"a", ".tar", ".json">>}
DetectPaths == {MkPath(d, n) : d \in DetectDirs, n \in DetectNames} \cup OpPaths

\* self._detect_format(path): it reads no state of the manager and no file.
Detect(p) ==
    /\ last' = [NoLast EXCEPT !.op = "detect", !.path = p, !.fmt2 = _detect_format(p)]
    /\ pre' = fs
    /\ UNCHANGED <<fs, loaders, converters, regLog, nops, obj, config, setLog>>

NextDetect ==
    \/ \E p \in DetectPaths : Detect(p)
    \/ \E r \in UserLoaders : RegisterLoader(r[1], r[2]) /\ UNCHANGED regLog

SpecDetect == Init /\ [][NextDetect]_vars

\* The table of the claim, on a suffix: any other suffix, and none, is HDF5.
SuffixTable ==
    [x \in {".h5", ".hdf5", ".zarr", ".json", ".pkl", ".pickle", ".npy", ".npz"} |->
        CASE x \in {".h5", ".hdf5"} -> "hdf5"
          [] x = ".zarr" -> "zarr"
          [] x = ".json" -> "json"
          [] x \in {".pkl", ".pickle"} -> "pickle"
          [] x \in {".npy", ".npz"} -> "numpy"]
TableOf(x) == IF x \in DOMAIN SuffixTable THEN SuffixTable[x] ELSE "hdf5"

(***************************************************************************)
(* C5 as stated: _detect_format returns what the table gives the path's    *)
(* suffix as written (.h5/.hdf5 HDF5, .zarr ZARR, .json JSON, .pkl/.pickle *)
(* PICKLE, .npy/.npz NUMPY, any other suffix or none HDF5), whatever the   *)
(* file system and the registry hold, and never AUTO.                      *)
(***************************************************************************)
C5_DetectBySuffix ==
    last.op = "detect" =>
        /\ last.fmt2 = TableOf(Suffix(last.path))
        /\ last.fmt2 \in ConcreteFormats

(***************************************************************************)
(* C5 amended: _detect_format returns what the table gives the path's      *)
(* suffix in lower case, so that the suffix is matched whatever its case;  *)
(* the result depends on nothing but the path, and is never AUTO.          *)
(***************************************************************************)
C5_DetectByLowerSuffix ==
    last.op = "detect" =>
        /\ last.fmt2 = TableOf(Lower(Suffix(last.path)))
        /\ last.fmt2 \in ConcreteFormats
        /\ last.exc = "none"

\* Detection of a suffix in upper case on a path that holds no file, with the
\* format it detects unbound.
C5_Witness ==
    /\ last.op = "detect"
    /\ Suffix(last.path) = ".JSON"
    /\ last.fmt2 = "json"
    /\ ~Exists(fs, last.path)
    /\ Unregistered(loaders, "json")

(***************************************************************************)
(* rdm.utils: flatten_dict and unflatten_dict.  A dict is held here with   *)
(* its items in insertion order, and a key as the sequence of its          *)
(* characters, so that keys are joined and split as the code does it.      *)
(***************************************************************************)
\* A dict with its items in insertion order, and the operations on it.
Item(k, v) == [k |-> k, v |-> v]
DictOf(items) == Mk("dict", "", items)
HasKey(d, k) == \E i \in DOMAIN d.kids : d.kids[i].k = k
ValueAt(d, k) == d.kids[CHOOSE i \in DOMAIN d.kids : d.kids[i].k = k].v

\* `d[k] = v`: the value of an item replaced in place, or a new item at the end.
SetItem(d, k, v) ==
    IF HasKey(d, k)
    THEN DictOf([i \in DOMAIN d.kids |-> IF d.kids[i].k = k THEN Item(k, v) ELSE d.kids[i]])
    ELSE DictOf(Append(d.kids, Item(k, v)))

\* `dict(items)`: of two items with one key the later value is kept.
RECURSIVE DictFromItems(_, _)
DictFromItems(acc, items) ==
    IF items = <<>> THEN acc
    ELSE DictFromItems(SetItem(acc, Head(items).k, Head(items).v), Tail(items))

\* `x == y` of two values.
RECURSIVE PyEq(_, _)
PyEq(x, y) ==
    IF IsDict(x) /\ IsDict(y)
    THEN /\ Len(x.kids) = Len(y.kids)
         /\ \A i \in DOMAIN x.kids :
                HasKey(y, x.kids[i].k) /\ PyEq(x.kids[i].v, ValueAt(y, x.kids[i].k))
    ELSE ~IsDict(x) /\ ~IsDict(y) /\ x = y

\* The default separator.
Sep == <<".">>

\* `new_key = f"{parent_key}{sep}{k}" if parent_key else k`
NewKey(parent_key, sep, k) == IF parent_key = <<>> THEN k ELSE parent_key \o sep \o k

\* _flatten of flatten_dict; FlattenItems is its loop `for k, v in obj.items():
\* items.extend(_flatten(v, new_key, sep=sep).items())` over the items left;
\* node is the `obj` of the code.
RECURSIVE _flatten(_, _, _)
RECURSIVE FlattenItems(_, _, _, _)
FlattenItems(items, rest, parent_key, sep) ==
    IF rest = <<>> THEN items
    ELSE FlattenItems(items \o _flatten(Head(rest).v, NewKey(parent_key, sep, Head(rest).k),
                                        sep).kids,
                      Tail(rest), parent_key, sep)

_flatten(node, parent_key, sep) ==
    DictFromItems(DictOf(<<>>),
                  IF IsDict(node) THEN FlattenItems(<<>>, node.kids, parent_key, sep)
                  ELSE <<Item(parent_key, node)>>)

flatten_dict(data, separator) == _flatten(data, <<>>, separator)

\* `key.split(separator)` for a separator of one character: the parts read,
\* the part being read and the characters left.
RECURSIVE SplitFrom(_, _, _, _)
SplitFrom(parts, part, rest, sep) ==
    IF rest = <<>> THEN Append(parts, part)
    ELSE IF <<Head(rest)>> = sep THEN SplitFrom(Append(parts, part), <<>>, Tail(rest), sep)
    ELSE SplitFrom(parts, Append(part, Head(rest)), Tail(rest), sep)

Split(key, sep) == SplitFrom(<<>>, <<>>, key, sep)

\* What unflatten_dict raises when `current` is no dict: `k not in current`
\* and `current[k] = value` on an int.
TypeError == Mk("raise", "TypeError", NoKids)

\* The inner loop of unflatten_dict and its last assignment, on `current`:
\* the dict it leaves, or TypeError.
RECURSIVE SetNested(_, _, _)
NestedSet(current, k, sub) == IF sub = TypeError THEN TypeError ELSE SetItem(current, k, sub)
SetNested(current, keys, value) ==
    IF ~IsDict(current) THEN TypeError
    ELSE IF Len(keys) = 1 THEN SetItem(current, keys[1], value)
    ELSE NestedSet(current, keys[1],
                   SetNested(IF HasKey(current, keys[1]) THEN ValueAt(current, keys[1])
                             ELSE DictOf(<<>>),
                             Tail(keys), value))

\* `for key, value in data.items():` over the items left.
RECURSIVE UnflattenLoop(_, _, _)
UnflattenLoop(result, items, sep) ==
    IF items = <<>> \/ result = TypeError THEN result
    ELSE UnflattenLoop(SetNested(result, Split(Head(items).k, sep), Head(items).v),
                       Tail(items), sep)

unflatten_dict(data, separator) == UnflattenLoop(DictOf(<<>>), data.kids, separator)

\* The nested dicts and the flat dicts the functions are called on: keys
\* with and without the separator and the empty key, integer leaves, empty
\* dicts, three levels.
UtilKeys == {<<"a">>, <<"b">>, <<"a", ".", "b">>, <<>>}
UtilLeaves == {PyInt("1"), PyInt("2")}
Inner == {DictOf(<<>>)} \cup {DictOf(<<Item(k, PyInt("1"))>>) : k \in UtilKeys}
Deeper == {DictOf(<<Item(<<"b">>, i)>>) : i \in {DictOf(<<>>), DictOf(<<Item(<<"a">>, PyInt("2"))>>)}}
UtilValues == UtilLeaves \cup Inner \cup Deeper
DictsOver(K, V) ==
    {DictOf(<<>>)}
    \cup {DictOf(<<Item(k, v)>>) : k \in K, v \in V}
    \cup {DictOf(<<Item(q[1], q[2]), Item(q[3], q[4])>>) :
             q \in {r \in K \X V \X K \X V : r[1] # r[3]}}
NestedDicts == DictsOver(UtilKeys, UtilValues)
FlatKeys == UtilKeys \cup {<<"b", ".", "a">>, <<"a", ".", "b", ".", "a">>, <<"a", ".">>}
FlatDicts == DictsOver(FlatKeys, UtilLeaves)

InitUtils ==
    /\ fs = MkFs(<<>>)
    /\ loaders = _register_default_loaders
    /\ converters = _register_default_converters
    /\ regLog = <<>>
    /\ last = NoLast
    /\ pre = fs
    /\ nops = 0
    /\ obj = NoObj
    /\ config = NoConfig
    /\ setLog = <<>>

UtilOp(rec) ==
    /\ nops < MaxOps
    /\ last' = rec
    /\ pre' = fs
    /\ nops' = nops + 1
    /\ UNCHANGED <<fs, loaders, converters, regLog, obj, config, setLog>>

FlattenDict(data) ==
    UtilOp([NoLast EXCEPT !.op = "flatten_dict", !.data = data,
                          !.ret = flatten_dict(data, Sep)])

UnflattenDone(data, result) ==
    UtilOp([NoLast EXCEPT !.op = "unflatten_dict", !.data = data,
                          !.exc = IF result = TypeError THEN "TypeError" ELSE "none",
                          !.ret = IF result = TypeError THEN PyNone ELSE result])

UnflattenDict(data) == UnflattenDone(data, unflatten_dict(data, Sep))

NextUtils ==
    \/ \E data \in NestedDicts : FlattenDict(data)
    \/ \E data \in FlatDicts : UnflattenDict(data)

SpecUtils == InitUtils /\ [][NextUtils]_vars

\* The leaves of a nested dict, each with the sequence of the keys that lead
\* to it, and the keys of such a sequence joined by the separator.
RECURSIVE LeafPaths(_, _)
LeafPaths(d, path) ==
    UNION {IF IsDict(d.kids[i].v) THEN LeafPaths(d.kids[i].v, Append(path, d.kids[i].k))
           ELSE {<<Append(path, d.kids[i].k), d.kids[i].v>>} : i \in DOMAIN d.kids}

RECURSIVE Joined(_, _)
Joined(path, sep) ==
    IF Len(path) = 1 THEN path[1] ELSE path[1] \o sep \o Joined(Tail(path), sep)

(***************************************************************************)
(* C24: for every nested dict d with string keys, flatten_dict(d) maps     *)
(* each leaf of d to the keys of its path joined by the separator, and     *)
(* unflatten_dict(flatten_dict(d)) == d.                                   *)
(***************************************************************************)
C24_FlattenInverse ==
    last.op = "flatten_dict" =>
        /\ \A l \in LeafPaths(last.data, <<>>) :
               /\ HasKey(last.ret, Joined(l[1], Sep))
               /\ ValueAt(last.ret, Joined(l[1], Sep)) = l[2]
        /\ PyEq(unflatten_dict(last.ret, Sep), last.data)

(***************************************************************************)
(* rdm.config: Config.get and Config.set on the configuration tree.  A     *)
(* dotted key is the sequence of its parts and dots.                       *)
(***************************************************************************)
Key1(name) == <<name>>

\* Config._load_default_config
_load_default_config ==
    DictOf(<<
        Item(Key1("formats"), DictOf(<<
            Item(Key1("hdf5"), DictOf(<<Item(Key1("compression"), PyStr("gzip")),
                                        Item(Key1("compression_opts"), PyInt("9")),
                                        Item(Key1("chunk_size"), PyNone)>>)),
            Item(Key1("zarr"), DictOf(<<Item(Key1("compression"), PyStr("blosc")),
                                        Item(Key1("chunk_size"), PyStr("auto"))>>)),
            Item(Key1("json"), DictOf(<<Item(Key1("indent"), PyInt("2")),
                                        Item(Key1("ensure_ascii"), PyBool(FALSE))>>)),
            Item(Key1("pickle"), DictOf(<<Item(Key1("protocol"), PyStr("highest"))>>)),
            Item(Key1("numpy"), DictOf(<<Item(Key1("allow_pickle"), PyBool(TRUE))>>))>>)),
        Item(Key1("validation"), DictOf(<<Item(Key1("strict"), PyBool(TRUE)),
                                          Item(Key1("check_schema"), PyBool(TRUE))>>)),
        Item(Key1("logging"), DictOf(<<Item(Key1("level"), PyStr("INFO")),
                                       Item(Key1("format"), PyStr("%(asctime)s"))>>)),
        Item(Key1("conversion"), DictOf(<<Item(Key1("parallel"), PyBool(TRUE)),
                                          Item(Key1("num_workers"), PyNone),
                                          Item(Key1("batch_size"), PyInt("1"))>>))>>)

\* `for k in keys: value = value[k]` of Config.get: [exc, value]; a value that
\* is no dict raises TypeError on a string index, a dict without the key
\* raises KeyError.
RECURSIVE Subscript(_, _)
Subscript(value, keys) ==
    IF keys = <<>> THEN [exc |-> "none", value |-> value]
    ELSE IF ~IsDict(value) THEN [exc |-> "TypeError", value |-> PyNone]
    ELSE IF ~HasKey(value, Head(keys)) THEN [exc |-> "KeyError", value |-> PyNone]
    ELSE Subscript(ValueAt(value, Head(keys)), Tail(keys))

\* A mutation of the except clause of Config.get: KeyError only.
GetCatchKeyError(w, default) ==
    IF w.exc = "KeyError" THEN [exc |-> "none", ret |-> default]
    ELSE [exc |-> w.exc, ret |-> w.value]

\* `try: ...; return value / except (KeyError, TypeError): return default`
GetCatch(w, default) ==
    IF w.exc \in {"KeyError", "TypeError"} THEN [exc |-> "none", ret |-> default]
    ELSE [exc |-> w.exc, ret |-> w.value]

\* Config.get and Config.set on the tree self_config: set gives the tree it
\* leaves, or TypeError when a part but the last leads to a value that is no
\* dict (nothing is written before it raises).
Config_get(self_config, key, default) == GetCatch(Subscript(self_config, Split(key, Sep)), default)
Config_set(self_config, key, value) == SetNested(self_config, Split(key, Sep), value)

\* The keys, values and defaults of the calls made.
KeyStrict == <<"validation", ".", "strict">>
ConfigKeys ==
    {KeyStrict, <<"validation">>, KeyStrict \o <<".", "x">>,
     <<"formats", ".", "hdf5", ".", "compression">>,
     <<"nonexistent", ".", "key">>, <<"nonexistent">>}
ConfigValues == {PyStr("lzf"), PyInt("1")}
ConfigDefaults == {PyNone, PyStr("default")}

\* Config(): no configuration file.
InitConfig ==
    /\ fs = MkFs(<<>>)
    /\ loaders = _register_default_loaders
    /\ converters = _register_default_converters
    /\ regLog = <<>>
    /\ last = NoLast
    /\ pre = fs
    /\ nops = 0
    /\ obj = NoObj
    /\ config = _load_default_config
    /\ setLog = <<>>

ConfigOp(rec, tree, log) ==
    /\ last' = rec
    /\ config' = tree
    /\ setLog' = log
    /\ pre' = fs
    /\ UNCHANGED <<fs, loaders, converters, regLog, nops, obj>>

SetDone(key, value, result) ==
    /\ Len(setLog) < MaxSets
    /\ ConfigOp([NoLast EXCEPT !.op = "config_set", !.key = key, !.data = value,
                               !.exc = IF result = TypeError THEN "TypeError" ELSE "none"],
                IF result = TypeError THEN config ELSE result,
                IF result = TypeError THEN setLog
                ELSE Append(setLog, [key |-> key, value |-> value]))

ConfigSet(key, value) == SetDone(key, value, Config_set(config, key, value))

GetDone(key, default, o) ==
    ConfigOp([NoLast EXCEPT !.op = "config_get", !.key = key, !.data = default,
                            !.exc = o.exc, !.ret = o.ret],
             config, setLog)

ConfigGet(key, default) == GetDone(key, default, Config_get(config, key, default))

NextConfig ==
    \/ \E key \in ConfigKeys, value \in ConfigValues : ConfigSet(key, value)
    \/ \E key \in ConfigKeys, default \in ConfigDefaults : ConfigGet(key, default)

SpecConfig == InitConfig /\ [][NextConfig]_vars

\* The set calls made for a key, the value of the last of them, and the keys
\* of which one leads through the other.
SetsOf(key) == {i \in DOMAIN setLog : setLog[i].key = key}
WasSet(key) == SetsOf(key) # {}
LastSetOf(key) == CHOOSE i \in SetsOf(key) : \A j \in SetsOf(key) : j <= i
IsProperPrefix(a, b) == Len(a) < Len(b) /\ SubSeq(b, 1, Len(a)) = a
Related(k1, k2) ==
    \/ IsProperPrefix(Split(k1, Sep), Split(k2, Sep))
    \/ IsProperPrefix(Split(k2, Sep), Split(k1, Sep))
DefaultKey(key) == Subscript(_load_default_config, Split(key, Sep)).exc = "none"
DefaultValue(key) == Subscript(_load_default_config, Split(key, Sep)).value
PathExists(key) == Subscript(config, Split(key, Sep)).exc = "none"

(***************************************************************************)
(* C25 as stated: after any sequence of Config.set calls, get(k, d)        *)
(* returns the value most recently set for the dotted key k, the built-in  *)
(* default value if k was never set but is a default key, and d if the     *)
(* dotted path k does not exist; get never raises.                         *)
(***************************************************************************)
C25_GetAfterSets ==
    last.op = "config_get" =>
        /\ last.exc = "none"
        /\ WasSet(last.key) => last.ret = setLog[LastSetOf(last.key)].value
        /\ (~WasSet(last.key) /\ DefaultKey(last.key)) => last.ret = DefaultValue(last.key)
        /\ ~PathExists(last.key) => last.ret = last.data

(***************************************************************************)
(* C25 amended: get(k, d) never raises; it returns the value most recently *)
(* set for k when no later set was made for a key that is a proper prefix  *)
(* of k or lies below k; the built-in default value when k is a default    *)
(* key and neither k nor a key related to it in that way was ever set; and *)
(* d when the dotted path k does not exist in the tree as the sets left    *)
(* it.                                                                     *)
(***************************************************************************)
C25_GetAfterSetsAmended ==
    last.op = "config_get" =>
        /\ last.exc = "none"
        /\ (/\ WasSet(last.key)
            /\ \A i \in DOMAIN setLog :
                   i > LastSetOf(last.key) => ~Related(setLog[i].key, last.key))
               => last.ret = setLog[LastSetOf(last.key)].value
        /\ (/\ ~WasSet(last.key)
            /\ DefaultKey(last.key)
            /\ \A i \in DOMAIN setLog : ~Related(setLog[i].key, last.key))
               => last.ret = DefaultValue(last.key)
        /\ ~PathExists(last.key) => last.ret = last.data

\* get of a key set before another key was set, and of a key whose parent
\* was set after it.
C25_Witness ==
    /\ last.op = "config_get"
    /\ Len(setLog) = 2
    /\ setLog[1].key = last.key
    /\ IsProperPrefix(Split(setLog[2].key, Sep), Split(last.key, Sep))
    /\ last.ret = last.data
    /\ last.ret # setLog[1].value
====
